---- MODULE Spec2Model ----
(***************************************************************************)
(* The global input-event logger of src/logger.py (class Logger and the    *)
(* value types KeyEvent and MouseEvent) as a state machine.                *)
(*                                                                         *)
(* Threads: the run thread executes run() and, inside the blocking         *)
(* record_enable_context call, the handler _process_events and the         *)
(* observer callbacks; a second thread executes stop(); keyboard() and     *)
(* mouse() may be called at any time.  A callback may itself call stop().  *)
(*                                                                         *)
(* The window server is an environment: it keeps the state of every        *)
(* record context, answers keycode_to_keysym from a fixed keyboard         *)
(* mapping and delivers reply buffers while a context is enabled.          *)
(***************************************************************************)
EXTENDS Integers, Sequences, FiniteSets, TLC

\* ------------------------------------------------------------------ bounds
\* run() is started at most MaxRuns times on the one Logger.
MaxRuns == 2
\* A reply buffer holds at most MaxLen records.
MaxLen == 3
\* The record stream is followed record by record for MaxHist records.
MaxHist == 3
\* click is called with at most MaxArgs arguments.
MaxArgs == 4
\* press and hold are called with at most MaxKeys keys.
MaxKeys == 2

\* ------------------------------------------------- constants of the protocol
\* Xlib.X event codes, as the handler compares them.
KeyPress == 2
KeyRelease == 3
ButtonPress == 4
ButtonRelease == 5
MotionNotify == 6
\* Xlib.X.Button1 .. Button5
Button1 == 1
Button2 == 2
Button3 == 3
Button4 == 4
Button5 == 5
\* Keysyms of Xlib.XK that the logger names.
XK_Shift_L == 65505
XK_Shift_R == 65506
XK_Shift_Lock == 65510
XK_Caps_Lock == 65509
\* self._context = None; a context handle is a positive resource id.
NoContext == 0

\* Python's None for a callback, and Optional values as sequences of length
\* at most one (None is the empty one).
None == "None"
NoneVal == <<>>
Some(v) == <<v>>
\* Python's `not x` for x in {None, True, False}.
PyNot(x) == IF x = NoneVal THEN TRUE ELSE ~x[1]

\* ------------------------------------------------------ Logger.__init__
\* Logger() against a window server: opening a display fails when no server
\* is reached; with a server that does not list RECORD the constructor
\* raises ValueError; otherwise the instance is made.
\* As LoggerNew, without the test of the extension list.
LoggerNew_NoCheck(server) ==
    IF ~server.reachable THEN "DisplayError" ELSE "Logger"

LoggerNew(server) ==
    IF ~server.reachable THEN "DisplayError"
    ELSE IF "RECORD" \notin server.extensions THEN "ValueError"
    ELSE "Logger"

\* The keysyms of 'a'..'z', '0'..'9' and the eleven punctuation keys: the
\* Latin-1 keysyms equal the character codes.
shiftable ==
    (97 .. 122) \cup (48 .. 57) \cup {45, 61, 91, 93, 59, 92, 39, 44, 46, 47, 96}

shift_keys == {XK_Shift_L, XK_Shift_R, XK_Shift_Lock}

\* ------------------------------------------------------ the keyboard mapping
\* Keycodes of the modelled keyboard: Escape, 'a', Shift_L, Shift_R, Caps_Lock.
Keycodes == {9, 38, 50, 62, 66}

\* local_dpy.keycode_to_keysym(keycode, index): index 0 is the plain symbol,
\* index 1 the shifted one (0 is NoSymbol).
KeycodeToKeysym(keycode, index) ==
    CASE keycode = 9  -> IF index = 0 THEN 65307 ELSE 0
      [] keycode = 38 -> IF index = 0 THEN 97 ELSE 65
      [] keycode = 50 -> XK_Shift_L
      [] keycode = 62 -> XK_Shift_R
      [] keycode = 66 -> XK_Caps_Lock
      [] OTHER -> 0

\* ------------------------------------------------------------ raw records
\* One decoded protocol event: its type, detail (keycode or button) and the
\* root coordinates every core device event carries.
Rec(t, d, x, y) == [type |-> t, detail |-> d, root_x |-> x, root_y |-> y]

KeyRecords == {Rec(t, k, 5, 5) : t \in {KeyPress, KeyRelease}, k \in Keycodes}
ButtonRecords ==
    {Rec(t, b, 7, 7) : t \in {ButtonPress, ButtonRelease}, b \in {Button1, Button4, Button5}}
MotionRecords == {Rec(MotionNotify, 0, 10, 20), Rec(MotionNotify, 0, 30, 40)}
\* A record of some other type (7, EnterNotify), which no branch handles.
OtherRecords == {Rec(7, 0, 5, 5)}
Records == KeyRecords \cup ButtonRecords \cup MotionRecords \cup OtherRecords
NoRecord == Rec(0, 0, 0, 0)

\* -------------------------------------------------------------- KeyEvent
KeyEvent(key, down, shift, caps) ==
    [key |-> key, down |-> down, up |-> ~down, shift |-> shift, caps |-> caps]

\* The names Xlib.XK defines with the prefix XK_ and their values, in the
\* order of dir(): Xlib.XK loads the groups miscellany and latin1, in which
\* a value may have two names (Next and Page_Down, apostrophe and
\* quoteright).
XK ==
    <<<<"A", 65>>, <<"Caps_Lock", XK_Caps_Lock>>, <<"Escape", 65307>>,
      <<"Next", 65366>>, <<"Page_Down", 65366>>, <<"Shift_L", XK_Shift_L>>,
      <<"Shift_Lock", XK_Shift_Lock>>, <<"Shift_R", XK_Shift_R>>, <<"a", 97>>,
      <<"apostrophe", 39>>, <<"quoteright", 39>>, <<"ydiaeresis", 255>>>>

\* KeyEvent._key_to_name, the dictionary {value: name} built over dir(): of
\* two names of one value the later one stays.  None for a value with no
\* name.
RECURSIVE key_to_name_from(_, _, _)
key_to_name_from(i, key, found) ==
    IF i > Len(XK) THEN found
    ELSE key_to_name_from(i + 1, key, IF XK[i][2] = key THEN XK[i][1] ELSE found)

key_to_name(key) == key_to_name_from(1, key, None)

\* KeyEvent._lookup_keysym: the name, or the key in brackets.
lookup_keysym(key) ==
    IF key_to_name(key) # None THEN key_to_name(key)
    ELSE "[" \o ToString(key) \o "]"

\* Xlib.XK.string_to_keysym: the value of the name, NoSymbol (0) for a
\* string that is no name.
string_to_keysym(str) ==
    IF \E i \in 1 .. Len(XK) : XK[i][1] = str
    THEN XK[CHOOSE i \in 1 .. Len(XK) : XK[i][1] = str][2]
    ELSE 0

\* As keysym_to_ascii, without the test against 256.
keysym_to_ascii_NoClamp(keysym) ==
    LET value == string_to_keysym(lookup_keysym(keysym))
    IN [raised |-> "none", value |-> value, printed |-> <<keysym, value>>]

\* KeyEvent._keysym_to_ascii: the value and what is printed on the way.
keysym_to_ascii(keysym) ==
    LET value == string_to_keysym(lookup_keysym(keysym))
    IN [raised |-> "none",
        value |-> IF value < 256 THEN value ELSE 0,
        printed |-> <<keysym, value>>]

\* ------------------------------------------------------------ MouseEvent
\* As MouseEvent, with the two wheel codes exchanged.
MouseEvent_WheelSwapped(other, down, pos, move) ==
    [left |-> other = Button1,
     right |-> other = Button3,
     middle |-> other = Button2,
     wheel |-> IF other = Button5 THEN 1 ELSE IF other = Button4 THEN -1 ELSE 0,
     other |-> other,
     down |-> down,
     up |-> PyNot(down),
     x |-> pos[1],
     y |-> pos[2],
     pos |-> pos,
     move |-> move]

MouseEvent(other, down, pos, move) ==
    [left |-> other = Button1,
     right |-> other = Button3,
     middle |-> other = Button2,
     wheel |-> IF other = Button4 THEN 1 ELSE IF other = Button5 THEN -1 ELSE 0,
     other |-> other,
     down |-> down,
     up |-> PyNot(down),
     x |-> pos[1],
     y |-> pos[2],
     pos |-> pos,
     move |-> move]

\* ------------------------------------------- Logger._create_*_event methods
\* Each returns the event together with the modifier state or pointer
\* position the method leaves behind.
\* As CreateKeyPressEvent, with Caps Lock left out of the group choice.
CreateKeyPressEvent_ShiftOnly(shift, caps, event) ==
    LET keysym0 == KeycodeToKeysym(event.detail, 0)
        regroup == shift /\ keysym0 \in shiftable
        keysym == IF regroup THEN KeycodeToKeysym(event.detail, 1) ELSE keysym0
        shift2 == IF ~regroup /\ keysym \in shift_keys THEN TRUE ELSE shift
        caps2 == IF ~regroup /\ keysym \notin shift_keys /\ keysym = XK_Caps_Lock
                 THEN ~caps ELSE caps
    IN [ev |-> KeyEvent(keysym, TRUE, shift2, caps2), shift |-> shift2, caps |-> caps2]

\* As CreateKeyPressEvent, with the event built before the modifier state
\* is updated.
CreateKeyPressEvent_StaleSnapshot(shift, caps, event) ==
    LET keysym0 == KeycodeToKeysym(event.detail, 0)
        regroup == (shift \/ caps) /\ keysym0 \in shiftable
        keysym == IF regroup THEN KeycodeToKeysym(event.detail, 1) ELSE keysym0
        shift2 == IF ~regroup /\ keysym \in shift_keys THEN TRUE ELSE shift
        caps2 == IF ~regroup /\ keysym \notin shift_keys /\ keysym = XK_Caps_Lock
                 THEN ~caps ELSE caps
    IN [ev |-> KeyEvent(keysym, TRUE, shift, caps), shift |-> shift2, caps |-> caps2]

CreateKeyPressEvent(shift, caps, event) ==
    LET keysym0 == KeycodeToKeysym(event.detail, 0)
        regroup == (shift \/ caps) /\ keysym0 \in shiftable
        keysym == IF regroup THEN KeycodeToKeysym(event.detail, 1) ELSE keysym0
        shift2 == IF ~regroup /\ keysym \in shift_keys THEN TRUE ELSE shift
        caps2 == IF ~regroup /\ keysym \notin shift_keys /\ keysym = XK_Caps_Lock
                 THEN ~caps ELSE caps
    IN [ev |-> KeyEvent(keysym, TRUE, shift2, caps2), shift |-> shift2, caps |-> caps2]

\* As CreateKeyReleaseEvent, with the Caps Lock branch of the press handler
\* copied in: the release toggles caps too.
CreateKeyReleaseEvent_CapsToggle(shift, caps, event) ==
    LET keysym0 == KeycodeToKeysym(event.detail, 0)
        regroup == (shift \/ caps) /\ keysym0 \in shiftable
        keysym == IF regroup THEN KeycodeToKeysym(event.detail, 1) ELSE keysym0
        shift2 == IF ~regroup /\ keysym \in shift_keys THEN FALSE ELSE shift
        caps2 == IF ~regroup /\ keysym \notin shift_keys /\ keysym = XK_Caps_Lock
                 THEN ~caps ELSE caps
    IN [ev |-> KeyEvent(keysym, FALSE, shift2, caps2), shift |-> shift2, caps |-> caps2]

CreateKeyReleaseEvent(shift, caps, event) ==
    LET keysym0 == KeycodeToKeysym(event.detail, 0)
        regroup == (shift \/ caps) /\ keysym0 \in shiftable
        keysym == IF regroup THEN KeycodeToKeysym(event.detail, 1) ELSE keysym0
        shift2 == IF ~regroup /\ keysym \in shift_keys THEN FALSE ELSE shift
    IN [ev |-> KeyEvent(keysym, FALSE, shift2, caps), shift |-> shift2, caps |-> caps]

\* As CreateButtonPressEvent, with the position read off the record.
CreateButtonPressEvent_OwnCoords(pos, event) ==
    [ev |-> MouseEvent(event.detail, Some(TRUE), <<event.root_x, event.root_y>>, FALSE),
     pos |-> pos]

\* As CreateButtonPressEvent, with the pointer position set from the record
\* as a motion record sets it.
CreateButtonPressEvent_MovesPointer(pos, event) ==
    [ev |-> MouseEvent(event.detail, Some(TRUE), pos, FALSE),
     pos |-> <<event.root_x, event.root_y>>]

CreateButtonPressEvent(pos, event) ==
    [ev |-> MouseEvent(event.detail, Some(TRUE), pos, FALSE), pos |-> pos]

CreateButtonReleaseEvent(pos, event) ==
    [ev |-> MouseEvent(event.detail, Some(FALSE), pos, FALSE), pos |-> pos]

\* As CreateMouseMoveEvent, with the event built as a button release is.
CreateMouseMoveEvent_AsRelease(pos, event) ==
    LET pos2 == <<event.root_x, event.root_y>>
    IN [ev |-> MouseEvent(event.detail, Some(FALSE), pos2, FALSE), pos |-> pos2]

CreateMouseMoveEvent(pos, event) ==
    LET pos2 == <<event.root_x, event.root_y>>
    IN [ev |-> MouseEvent(0, NoneVal, pos2, TRUE), pos |-> pos2]

\* ------------------------------------------------- Logger._process_events
\* The validity check at the head of the handler, on the reply's category,
\* its client_swapped flag, whether its data is empty and its first data byte.
\* As ReplyValid, without the client_swapped test.
ReplyValid_NoSwapTest(r) ==
    ~(\/ r.category # "FromServer"
      \/ r.empty
      \/ r.first < 2)

ReplyValid(r) ==
    ~(\/ r.category # "FromServer"
      \/ r.client_swapped
      \/ r.empty
      \/ r.first < 2)

\* As KeyDispatch, without the KeyRelease branch.
KeyDispatch_PressOnly(cb, shift, caps, event) ==
    IF cb # None /\ event.type = KeyPress
    THEN LET r == CreateKeyPressEvent(shift, caps, event)
         IN [calls |-> <<[cb |-> cb, kind |-> "key", rec |-> event, ev |-> r.ev]>>,
             shift |-> r.shift, caps |-> r.caps]
    ELSE [calls |-> <<>>, shift |-> shift, caps |-> caps]

\* As KeyDispatch, with a last branch that hands a record of any other
\* type to the press handler.
KeyDispatch_ElseIsPress(cb, shift, caps, event) ==
    IF cb # None /\ event.type = KeyPress
    THEN LET r == CreateKeyPressEvent(shift, caps, event)
         IN [calls |-> <<[cb |-> cb, kind |-> "key", rec |-> event, ev |-> r.ev]>>,
             shift |-> r.shift, caps |-> r.caps]
    ELSE IF cb # None /\ event.type = KeyRelease
    THEN LET r == CreateKeyReleaseEvent(shift, caps, event)
         IN [calls |-> <<[cb |-> cb, kind |-> "key", rec |-> event, ev |-> r.ev]>>,
             shift |-> r.shift, caps |-> r.caps]
    ELSE IF cb # None /\ event.type \notin {ButtonPress, ButtonRelease, MotionNotify}
    THEN LET r == CreateKeyPressEvent(shift, caps, event)
         IN [calls |-> <<[cb |-> cb, kind |-> "key", rec |-> event, ev |-> r.ev]>>,
             shift |-> r.shift, caps |-> r.caps]
    ELSE [calls |-> <<>>, shift |-> shift, caps |-> caps]

\* The keyboard half of one loop iteration: the invocation it makes (none
\* when no keyboard callback is set) and the modifier state afterwards.
KeyDispatch(cb, shift, caps, event) ==
    IF cb # None /\ event.type = KeyPress
    THEN LET r == CreateKeyPressEvent(shift, caps, event)
         IN [calls |-> <<[cb |-> cb, kind |-> "key", rec |-> event, ev |-> r.ev]>>,
             shift |-> r.shift, caps |-> r.caps]
    ELSE IF cb # None /\ event.type = KeyRelease
    THEN LET r == CreateKeyReleaseEvent(shift, caps, event)
         IN [calls |-> <<[cb |-> cb, kind |-> "key", rec |-> event, ev |-> r.ev]>>,
             shift |-> r.shift, caps |-> r.caps]
    ELSE [calls |-> <<>>, shift |-> shift, caps |-> caps]

\* As MouseDispatch, with a last branch that hands key records to the mouse
\* callback as well.
MouseDispatch_AlsoKeys(cb, pos, event) ==
    IF cb # None /\ event.type = ButtonPress
    THEN LET r == CreateButtonPressEvent(pos, event)
         IN [calls |-> <<[cb |-> cb, kind |-> "mouse", rec |-> event, ev |-> r.ev]>>,
             pos |-> r.pos]
    ELSE IF cb # None /\ event.type = ButtonRelease
    THEN LET r == CreateButtonReleaseEvent(pos, event)
         IN [calls |-> <<[cb |-> cb, kind |-> "mouse", rec |-> event, ev |-> r.ev]>>,
             pos |-> r.pos]
    ELSE IF cb # None /\ event.type = MotionNotify
    THEN LET r == CreateMouseMoveEvent(pos, event)
         IN [calls |-> <<[cb |-> cb, kind |-> "mouse", rec |-> event, ev |-> r.ev]>>,
             pos |-> r.pos]
    ELSE IF cb # None /\ event.type \in {KeyPress, KeyRelease}
    THEN LET r == CreateButtonPressEvent(pos, event)
         IN [calls |-> <<[cb |-> cb, kind |-> "mouse", rec |-> event, ev |-> r.ev]>>,
             pos |-> r.pos]
    ELSE [calls |-> <<>>, pos |-> pos]

\* The mouse half of one loop iteration.
MouseDispatch(cb, pos, event) ==
    IF cb # None /\ event.type = ButtonPress
    THEN LET r == CreateButtonPressEvent(pos, event)
         IN [calls |-> <<[cb |-> cb, kind |-> "mouse", rec |-> event, ev |-> r.ev]>>,
             pos |-> r.pos]
    ELSE IF cb # None /\ event.type = ButtonRelease
    THEN LET r == CreateButtonReleaseEvent(pos, event)
         IN [calls |-> <<[cb |-> cb, kind |-> "mouse", rec |-> event, ev |-> r.ev]>>,
             pos |-> r.pos]
    ELSE IF cb # None /\ event.type = MotionNotify
    THEN LET r == CreateMouseMoveEvent(pos, event)
         IN [calls |-> <<[cb |-> cb, kind |-> "mouse", rec |-> event, ev |-> r.ev]>>,
             pos |-> r.pos]
    ELSE [calls |-> <<>>, pos |-> pos]

\* ------------------------------------------------------- the window server
\* One request as it leaves the client: the connection it is written to, the
\* operation and the context handle passed.  n flips with every request.
Req(conn, op, ctx, old) == [conn |-> conn, op |-> op, ctx |-> ctx, n |-> 1 - old.n]

ContextIds == 1 .. MaxRuns

\* RecordDisableContext at the server: only an enabled context changes; the
\* request is an error (BadContext) for a handle that names no live context.
ServerDisable(cs, ctx) ==
    IF ctx \in ContextIds /\ cs[ctx] = "enabled"
    THEN [cs EXCEPT ![ctx] = "disabled"]
    ELSE cs

\* ==================================================================== state
VARIABLES
    \* Logger fields
    key_cb, mouse_cb, context, mouse_pos, shift_held, caps_held,
    \* the run thread: its position in run(), the exception that ended the
    \* receive loop of this run(), how this run() ended, the context it
    \* created, and the run() calls so far
    pc, exc, result, runCtx, runs,
    \* the thread executing stop(): its position in stop()
    stopPc,
    \* the server's state of every context id and the last request sent
    ctxState, lastReq,
    \* the reply the handler was last entered with: category, client_swapped,
    \* whether data is empty, and the first byte of data.  The records of
    \* data are drawn as the loop parses them off.
    reply,
    \* observations: the callback invocations of the latest handler step, and
    \* what has been seen of the current buffer and of the whole record stream
    calls, buf, seen, stopsInRow, stopInLoop,
    \* a second thread that calls run(): its position in run()
    pc2,
    \* a `with` statement on the logger: its position, and whether its body
    \* ended by an exception
    withPc, bodyExc,
    \* observation: the arguments of the latest keyboard() and mouse() calls,
    \* and the callback the latest keyboard() call replaced by another
    lastReg,
    \* observation: the records decoded so far, in order, the records the
    \* invocations made so far were for, in order, and whether a record was
    \* decoded while the callback of its class was unset
    hist,
    \* the window server the displays are opened on, and the module
    \* ait._linux: whether it was imported and what its name `log` is bound to
    xserver, linux,
    \* the latest call of ait.click: the platform, whether xdotool runs, the
    \* arguments, and what the call did
    clickCall,
    \* the latest call of MB.parse: its argument and what the call did
    parseCall,
    \* Windows: the virtual keys held down now, and the iterator events()
    \* returned: the snapshot in _before, the list _events, and what the
    \* latest __next__ did
    kbd, evs,
    \* the latest read of a property of a KeyEvent: the event, the property
    \* and what the read gave
    keyProp,
    \* Windows: the keyboard inputs SendInput was handed so far, the latest
    \* call of press, and the block of a `with hold(...)` statement
    sent, pressCall, holdSt

loggerVars == <<key_cb, mouse_cb, context, mouse_pos, shift_held, caps_held>>
runVars == <<pc, exc, result, runCtx, runs>>
serverVars == <<ctxState, lastReq>>
replyVars == <<reply>>
obsVars == <<calls, buf, seen, stopsInRow, stopInLoop>>
\* What the operations of Logger above leave alone: the callers of the
\* logger other than the thread of run() and the thread of stop().
callVars == <<pc2>>
withVars == <<withPc, bodyExc>>
regVars == <<lastReg>>
histVars == <<hist>>
aitVars == <<xserver, linux, clickCall, parseCall>>
winVars == <<kbd, evs>>
propVars == <<keyProp>>
inVars == <<sent, pressCall, holdSt>>
extVars == <<callVars, withVars, regVars, histVars, aitVars, winVars, propVars, inVars>>
\* extVars without one of its parts.
exceptCall == <<withVars, regVars, histVars, aitVars, winVars, propVars, inVars>>
exceptWith == <<callVars, regVars, histVars, aitVars, winVars, propVars, inVars>>
exceptReg == <<callVars, withVars, histVars, aitVars, winVars, propVars, inVars>>
exceptHist == <<callVars, withVars, regVars, aitVars, winVars, propVars, inVars>>
exceptAit == <<callVars, withVars, regVars, histVars, winVars, propVars, inVars>>
exceptWin == <<callVars, withVars, regVars, histVars, aitVars, propVars, inVars>>
exceptProp == <<callVars, withVars, regVars, histVars, aitVars, winVars, inVars>>
exceptIn == <<callVars, withVars, regVars, histVars, aitVars, winVars, propVars>>
vars == <<loggerVars, runVars, stopPc, serverVars, replyVars, obsVars, extVars>>

\* The functions a caller registers as callbacks.
Callbacks == {"f"}

NoReply == [category |-> "None", client_swapped |-> FALSE, empty |-> TRUE, first |-> 0]

\* What has been seen of the current buffer: the number of records decoded,
\* the last of them, whether a callback was invoked, whether every record
\* was a mouse record, the last motion record's coordinates, and how far
\* the buffer matches [KeyPress(a), Motion(10,20), ButtonPress(1)].
NewBuf == [n |-> 0, rec |-> NoRecord, invoked |-> FALSE, onlyMouse |-> TRUE,
           lastMotion |-> NoneVal, ex |-> 0]

\* What has been seen of the whole record stream: the coordinates of the
\* last motion record decoded, the number of Caps Lock presses decoded
\* (counted 0, 1, 2, 3, 2, 3, ... so that its parity is kept), and whether
\* a key record or a motion record was decoded while its callback was unset.
NewSeen == [lastMotion |-> <<0, 0>>, capsPresses |-> 0,
            missedKey |-> FALSE, missedMotion |-> FALSE]

InitFields ==
    /\ key_cb = None /\ mouse_cb = None
    /\ context = NoContext
    /\ mouse_pos = <<0, 0>>
    /\ shift_held = FALSE /\ caps_held = FALSE
    /\ pc = "idle" /\ exc = "none" /\ result = "none" /\ runCtx = NoContext /\ runs = 0
    /\ stopPc = "idle"
    /\ ctxState = [i \in ContextIds |-> "none"]
    /\ lastReq = [conn |-> "none", op |-> "none", ctx |-> NoContext, n |-> 0]
    /\ reply = NoReply
    /\ calls = <<>> /\ buf = NewBuf /\ seen = NewSeen
    /\ stopsInRow = 0 /\ stopInLoop = FALSE
    /\ pc2 = "idle"
    /\ withPc = "out" /\ bodyExc = FALSE
    /\ lastReg = [key |-> None, mouse |-> None, keyReplaced |-> None]
    /\ hist = [decoded |-> <<>>, delivered |-> <<>>, missed |-> FALSE]
    /\ keyProp = [called |-> FALSE, ev |-> KeyEvent(0, FALSE, FALSE, FALSE),
                  prop |-> "none", raised |-> "none", value |-> 0, printed |-> <<>>]
    /\ sent = <<>>
    /\ pressCall = [called |-> FALSE, keys |-> <<>>, raised |-> "none"]
    /\ holdSt = [pc |-> "out", platform |-> "nt", keys |-> <<>>, raised |-> "none",
                 downs |-> <<>>, body |-> <<>>, ups |-> <<>>, bodyExc |-> FALSE]
    /\ kbd = {}
    /\ evs = [before |-> {}, events |-> <<>>, raised |-> "none", item |-> <<>>]

\* ------------------------------------------------------------- ait.click
\* An argument of click: a number or a string.
NumArg(n) == [isStr |-> FALSE, n |-> n, s |-> ""]
StrArg(t) == [isStr |-> TRUE, n |-> 0, s |-> t]

\* str.upper() on the strings used as arguments.
Upper(t) ==
    CASE t = "m" -> "M" [] t = "x" -> "X" [] t = "l" -> "L" [] t = "r" -> "R"
      [] t = "lmb" -> "LMB" [] t = "Mmb" -> "MMB" [] t = "rMB" -> "RMB"
      [] t = "left" -> "LEFT"
      [] OTHER -> t

\* MB.parse: MB.L, MB.M or MB.R; for any other value it returns (and does
\* not raise) a ValueError instance.
MBparse(value) ==
    IF ~value.isStr
    THEN IF value.n < 0 THEN "L" ELSE IF value.n > 0 THEN "R" ELSE "M"
    ELSE LET u == Upper(value.s)
         IN IF u \in {"L", "LMB"} THEN "L"
            ELSE IF u \in {"R", "RMB"} THEN "R"
            ELSE IF u \in {"M", "MMB"} THEN "M"
            ELSE "ValueErrorInstance"

\* A call of MB.parse as a whole: every path of the method ends in a
\* return statement, so the call raises nothing and hands back what MBparse
\* gives.
ParseOutcome(value) == [raised |-> "none", value |-> MBparse(value)]

\* The keys of BUTTONS (Linux) and BUTTON_TO_EVENTS (Windows).
Buttons == {"L", "M", "R"}

\* What a call did: the exception it raised ("none" for a normal return)
\* and the pointer operations it carried out, in order.
Eff(op, x, y, button) == [op |-> op, x |-> x, y |-> y, button |-> button]
Outcome(raised, effects) == [raised |-> raised, effects |-> effects]

\* move(x, y): _parse_pos reads x.imag and y.imag, which a string lacks.
\* The conversion of the coordinates is not followed.
Move(x, y) ==
    IF x.isStr \/ y.isStr THEN Outcome("AttributeError", <<>>)
    ELSE Outcome("none", <<Eff("move", x.n, y.n, "")>>)

\* The click itself after the operations in done: the button is looked up
\* in the platform's table.
PressButton(button, done) ==
    IF button \in Buttons THEN Outcome("none", Append(done, Eff("click", 0, 0, button)))
    ELSE Outcome("KeyError", done)

\* ait._linux.click, behind _requires_xdotool.
LinuxClick(args, xdotool) ==
    IF ~xdotool THEN Outcome("ValueError", <<>>)
    ELSE IF Len(args) = 0 THEN PressButton("L", <<>>)
    ELSE IF Len(args) = 1 THEN PressButton(MBparse(args[1]), <<>>)
    ELSE IF Len(args) = 3
    THEN LET button == MBparse(args[3])
             moved == Move(args[1], args[2])
         IN IF moved.raised # "none" THEN moved ELSE PressButton(button, moved.effects)
    ELSE Outcome("TypeError", <<>>)

\* ait._windows.click
WindowsClick(args) ==
    IF Len(args) = 0 THEN PressButton("L", <<>>)
    ELSE IF Len(args) = 1 THEN PressButton(MBparse(args[1]), <<>>)
    ELSE IF Len(args) = 2
    THEN LET moved == Move(args[1], args[2])
         IN IF moved.raised # "none" THEN moved ELSE PressButton("L", moved.effects)
    ELSE IF Len(args) = 3
    THEN LET button == MBparse(args[3])
             moved == Move(args[1], args[2])
         IN IF moved.raised # "none" THEN moved ELSE PressButton(button, moved.effects)
    ELSE Outcome("TypeError", <<>>)

\* ait.click: _proxy hands the call to the module chosen by os.name.
AitClick(platform, xdotool, args) ==
    IF platform = "nt" THEN WindowsClick(args) ELSE LinuxClick(args, xdotool)

ArgValues == {NumArg(-1), NumArg(0), NumArg(120), NumArg(240), StrArg("m"), StrArg("x")}
ArgLists == UNION {[1 .. n -> ArgValues] : n \in 0 .. MaxArgs}

NoCall ==
    [called |-> FALSE, platform |-> "posix", xdotool |-> TRUE, args |-> <<>>,
     out |-> Outcome("none", <<>>)]

\* Arguments of MB.parse: numbers of either sign, the documented names in
\* several spellings, and strings that name no button.
ParseValues ==
    {NumArg(n) : n \in {-7, -1, 0, 1, 120}}
    \cup {StrArg(t) : t \in {"L", "l", "LMB", "lmb", "M", "m", "MMB", "Mmb",
                              "R", "r", "RMB", "rMB", "x", "left", ""}}

NoParse == [called |-> FALSE, value |-> NumArg(0), out |-> ParseOutcome(NumArg(0))]

\* One call of MB.parse; one call of the module is followed at a time.
Parse(value) ==
    /\ ~parseCall.called /\ ~clickCall.called
    /\ parseCall' = [called |-> TRUE, value |-> value, out |-> ParseOutcome(value)]
    /\ UNCHANGED <<loggerVars, runVars, stopPc, serverVars, replyVars, obsVars>>
    /\ UNCHANGED <<exceptAit, xserver, linux, clickCall>>

\* One call of ait.click.
Click(platform, xdotool, args) ==
    /\ ~clickCall.called /\ ~parseCall.called
    /\ clickCall' = [called |-> TRUE, platform |-> platform, xdotool |-> xdotool,
                     args |-> args, out |-> AitClick(platform, xdotool, args)]
    /\ UNCHANGED <<loggerVars, runVars, stopPc, serverVars, replyVars, obsVars>>
    /\ UNCHANGED <<exceptAit, xserver, linux, parseCall>>

\* ------------------------------------------- ait._windows.events, _Events
\* The virtual-key codes followed, in the order of enumerate(): the left
\* mouse button, a code with no entry, Backspace and 'A'.
VkOrder == <<1, 7, 8, 65>>
Vks == {VkOrder[i] : i \in 1 .. Len(VkOrder)}

\* KEYS[vk]: the names of a virtual key; the empty tuple for a code that
\* has none.
KEYS(vk) ==
    CASE vk = 1 -> <<"LMB">>
      [] vk = 8 -> <<"\\b", "BACKSPACE">>
      [] vk = 65 -> <<"A">>
      [] OTHER -> <<>>

\* _vk_to_key: KEYS[vk][0].  Indexing the empty tuple raises IndexError,
\* which the `except KeyError` clause does not catch.
VkToKey(vk) ==
    IF KEYS(vk) = <<>> THEN [raised |-> "IndexError", key |-> ""]
    ELSE [raised |-> "none", key |-> KEYS(vk)[1]]

\* The loop of _fill_events over the codes from position i on: a tuple is
\* appended for every code whose bit differs; an exception ends the loop
\* with the tuples appended so far.
RECURSIVE FillFrom(_, _, _, _)
FillFrom(i, before, after, events) ==
    IF i > Len(VkOrder) THEN [raised |-> "none", events |-> events]
    ELSE LET vk == VkOrder[i]
         IN IF (vk \in before) = (vk \in after)
            THEN FillFrom(i + 1, before, after, events)
            ELSE IF VkToKey(vk).raised # "none"
            THEN [raised |-> VkToKey(vk).raised, events |-> events]
            ELSE FillFrom(i + 1, before, after,
                          Append(events, <<VkToKey(vk).key, vk \in after>>))

\* A key goes down or up.
KeyChange(vk) ==
    /\ kbd' = IF vk \in kbd THEN kbd \ {vk} ELSE kbd \cup {vk}
    /\ UNCHANGED evs
    /\ UNCHANGED <<loggerVars, runVars, stopPc, serverVars, replyVars, obsVars>>
    /\ UNCHANGED exceptWin

\* __iter__: the snapshot _before is taken (no __next__ has acted on it).
EventsIter ==
    /\ evs' = [evs EXCEPT !.before = kbd, !.raised = "none", !.item = <<>>]
    /\ evs' # evs
    /\ UNCHANGED kbd
    /\ UNCHANGED <<loggerVars, runVars, stopPc, serverVars, replyVars, obsVars>>
    /\ UNCHANGED exceptWin

\* __next__: with _events empty _fill_events is called (and called again
\* after a sleep until there is an event); the snapshots are exchanged only
\* when the loop of _fill_events has ended; the last event is popped.
EventsNext ==
    /\ evs.events # <<>> \/ kbd # evs.before
    /\ LET filled == IF evs.events # <<>>
                     THEN [raised |-> "none", events |-> evs.events]
                     ELSE FillFrom(1, evs.before, kbd, <<>>)
           n == Len(filled.events)
       IN evs' = IF filled.raised # "none"
                 THEN [evs EXCEPT !.events = filled.events, !.raised = filled.raised,
                                  !.item = <<>>]
                 ELSE [before |-> IF evs.events # <<>> THEN evs.before ELSE kbd,
                       events |-> SubSeq(filled.events, 1, n - 1),
                       raised |-> "none",
                       item |-> filled.events[n]]
    /\ UNCHANGED kbd
    /\ UNCHANGED <<loggerVars, runVars, stopPc, serverVars, replyVars, obsVars>>
    /\ UNCHANGED exceptWin

\* ----------------------------------------------- KeyEvent.name, KeyEvent.ord
\* The keysyms of the events read: those with a name and 0 (NoSymbol), 256
\* and 300, which have none in the groups loaded.
PropKeysyms == {XK[i][2] : i \in 1 .. Len(XK)} \cup {0, 256, 300}

\* A read of the property name of a KeyEvent.
Name(ev) ==
    /\ ~keyProp.called
    /\ keyProp' = [called |-> TRUE, ev |-> ev, prop |-> "name", raised |-> "none",
                   value |-> lookup_keysym(ev.key), printed |-> <<>>]
    /\ UNCHANGED <<loggerVars, runVars, stopPc, serverVars, replyVars, obsVars>>
    /\ UNCHANGED exceptProp

\* A read of the property ord of a KeyEvent.
Ord(ev) ==
    /\ ~keyProp.called
    /\ LET r == keysym_to_ascii(ev.key)
       IN keyProp' = [called |-> TRUE, ev |-> ev, prop |-> "ord", raised |-> r.raised,
                      value |-> r.value, printed |-> r.printed]
    /\ UNCHANGED <<loggerVars, runVars, stopPc, serverVars, replyVars, obsVars>>
    /\ UNCHANGED exceptProp

\* --------------------------------------------- ait._windows.press, hold
\* A key is a string, modelled as the sequence of its characters.
\* str.upper(), on the characters used.
UpperChar(c) ==
    CASE c = "a" -> "A" [] c = "c" -> "C" [] c = "d" -> "D" [] c = "l" -> "L"
      [] c = "r" -> "R" [] c = "t" -> "T" [] OTHER -> c

StrUpper(str) == [i \in 1 .. Len(str) |-> UpperChar(str[i])]

\* str.strip(' ')
RECURSIVE LStrip(_)
LStrip(str) == IF str # <<>> /\ Head(str) = " " THEN LStrip(Tail(str)) ELSE str

RECURSIVE RStrip(_)
RStrip(str) ==
    IF str # <<>> /\ str[Len(str)] = " " THEN RStrip(SubSeq(str, 1, Len(str) - 1)) ELSE str

Strip(str) == RStrip(LStrip(str))

\* str.split('+'): the pieces between the '+' characters, cur being the
\* piece begun.
RECURSIVE SplitFrom(_, _, _)
SplitFrom(str, i, cur) ==
    IF i > Len(str) THEN <<cur>>
    ELSE IF str[i] = "+" THEN <<cur>> \o SplitFrom(str, i + 1, <<>>)
    ELSE SplitFrom(str, i + 1, Append(cur, str[i]))

Split(str) == SplitFrom(str, 1, <<>>)

\* KEY_MAP, the names of KEYS with their codes: the entries of the names
\* used.
KEY_NAMES == {<<"C", "T", "R", "L">>, <<" ">>, <<"A">>, <<"D">>}

KEY_MAP(name) ==
    CASE name = <<"C", "T", "R", "L">> -> 17
      [] name = <<" ">> -> 32
      [] name = <<"A">> -> 65
      [] name = <<"D">> -> 68

\* ord() of the characters used that are no name.
OrdChar(c) == CASE c = "!" -> 33 [] c = "+" -> 43 [] OTHER -> 63

\* _key_to_vk: the code of the name, else the code point of a single
\* character, else ValueError.
KeyToVk(key) ==
    LET k == IF key # <<" ">> THEN StrUpper(Strip(key)) ELSE key
    IN IF k \in KEY_NAMES THEN [raised |-> "none", vk |-> KEY_MAP(k)]
       ELSE IF Len(k) = 1 THEN [raised |-> "none", vk |-> OrdChar(k[1])]
       ELSE [raised |-> "ValueError", vk |-> 0]

\* _vk_to_kbd_input: a keyboard input, key-up by the flag KEYEVENTF_KEYUP.
VkToKbdInput(vk, down) == [vk |-> vk, down |-> down]

Reverse(seq) == [i \in 1 .. Len(seq) |-> seq[Len(seq) + 1 - i]]

\* As KeyAsKbdInputs, with the key-up inputs in the order of the key-down
\* inputs.
KeyAsKbdInputs_UpsInOrder(key) ==
    LET parts == Split(key)
        vks == [i \in 1 .. Len(parts) |-> KeyToVk(parts[i])]
    IN IF \E i \in 1 .. Len(vks) : vks[i].raised # "none"
       THEN [raised |-> "ValueError", inputs |-> <<>>]
       ELSE [raised |-> "none",
             inputs |-> [i \in 1 .. Len(vks) |-> VkToKbdInput(vks[i].vk, TRUE)]
                        \o [i \in 1 .. Len(vks) |-> VkToKbdInput(vks[i].vk, FALSE)]]

\* _key_as_kbd_inputs: all the inputs the generator yields; the codes are
\* computed before the first is yielded.
KeyAsKbdInputs(key) ==
    LET parts == Split(key)
        vks == [i \in 1 .. Len(parts) |-> KeyToVk(parts[i])]
    IN IF \E i \in 1 .. Len(vks) : vks[i].raised # "none"
       THEN [raised |-> "ValueError", inputs |-> <<>>]
       ELSE [raised |-> "none",
             inputs |-> [i \in 1 .. Len(vks) |-> VkToKbdInput(vks[i].vk, TRUE)]
                        \o [i \in 1 .. Len(vks) |-> VkToKbdInput(Reverse(vks)[i].vk, FALSE)]]

\* The list `inputs` of press: the inputs of the keys from position i on.
RECURSIVE PressInputs(_, _)
PressInputs(keys, i) ==
    IF i > Len(keys) THEN [raised |-> "none", inputs |-> <<>>]
    ELSE LET first == KeyAsKbdInputs(keys[i])
             rest == PressInputs(keys, i + 1)
         IN IF first.raised # "none" THEN first
            ELSE IF rest.raised # "none" THEN rest
            ELSE [raised |-> "none", inputs |-> first.inputs \o rest.inputs]

\* The keys press and hold are called with: 'a', 'D', ' a ', ' ', '!',
\* 'ctrl+d', 'a+d', 'ctrl+a+d', and the strings 'dd', 'a+' and '' that
\* name no key.
KeyStrings ==
    {<<"a">>, <<"D">>, <<" ", "a", " ">>, <<" ">>, <<"!">>,
     <<"c", "t", "r", "l", "+", "d">>, <<"a", "+", "d">>,
     <<"c", "t", "r", "l", "+", "a", "+", "d">>,
     <<"d", "d">>, <<"a", "+">>, <<>>}

RECURSIVE SeqsUpTo(_, _)
SeqsUpTo(S, n) ==
    IF n = 0 THEN {<<>>}
    ELSE LET shorter == SeqsUpTo(S, n - 1)
         IN shorter \cup {Append(q, x) : q \in shorter, x \in S}

KeyLists == SeqsUpTo(KeyStrings, MaxKeys)

\* press(*keys) on Windows: the inputs of all keys are built and handed to
\* SendInput in one call.
Press(keys) ==
    /\ ~pressCall.called
    /\ LET r == PressInputs(keys, 1)
       IN /\ pressCall' = [called |-> TRUE, keys |-> keys, raised |-> r.raised]
          /\ sent' = sent \o r.inputs
    /\ UNCHANGED holdSt
    /\ UNCHANGED <<loggerVars, runVars, stopPc, serverVars, replyVars, obsVars>>
    /\ UNCHANGED exceptIn

\* The inputs hold builds for its keys, all key-down or all key-up: hold
\* takes each argument as one key and does not split it.
HoldInputs(keys, down) ==
    LET vks == [i \in 1 .. Len(keys) |-> KeyToVk(keys[i])]
    IN IF \E i \in 1 .. Len(vks) : vks[i].raised # "none"
       THEN [raised |-> "ValueError", inputs |-> <<>>]
       ELSE [raised |-> "none",
             inputs |-> [i \in 1 .. Len(vks) |-> VkToKbdInput(vks[i].vk, down)]]

\* `with hold(*keys):` up to the body.  On Windows the generator runs to
\* its yield: the key-down inputs are built and sent.  ait._linux defines
\* no hold, and the function _proxy puts in its place raises.
Hold(platform, keys) ==
    /\ holdSt.pc = "out" /\ holdSt.raised = "none"
    /\ LET r == HoldInputs(keys, TRUE)
       IN IF platform # "nt"
          THEN /\ holdSt' = [holdSt EXCEPT !.platform = platform, !.keys = keys,
                                           !.raised = "NotImplementedError"]
               /\ UNCHANGED sent
          ELSE IF r.raised # "none"
          THEN /\ holdSt' = [holdSt EXCEPT !.platform = platform, !.keys = keys,
                                           !.raised = r.raised]
               /\ UNCHANGED sent
          ELSE /\ holdSt' = [holdSt EXCEPT !.platform = platform, !.keys = keys,
                                           !.pc = "body", !.downs = r.inputs]
               /\ sent' = sent \o r.inputs
    /\ UNCHANGED pressCall
    /\ UNCHANGED <<loggerVars, runVars, stopPc, serverVars, replyVars, obsVars>>
    /\ UNCHANGED exceptIn

\* The keys the body of the block presses.
BodyKeys == {<<"a">>, <<"c", "t", "r", "l", "+", "d">>}

\* The body of the block calls press(key).
HoldBodyPress(key) ==
    /\ holdSt.pc = "body" /\ holdSt.body = <<>>
    /\ LET r == PressInputs(<<key>>, 1)
       IN /\ holdSt' = [holdSt EXCEPT !.body = r.inputs]
          /\ sent' = sent \o r.inputs
    /\ UNCHANGED pressCall
    /\ UNCHANGED <<loggerVars, runVars, stopPc, serverVars, replyVars, obsVars>>
    /\ UNCHANGED exceptIn

\* As HoldLeave, with the key-up inputs sent after the yield and no
\* try/finally around it.
HoldLeave_OnlyOnNormalExit(raises) ==
    /\ holdSt.pc = "body"
    /\ LET r == HoldInputs(holdSt.keys, FALSE)
       IN /\ holdSt' = [holdSt EXCEPT !.pc = "left", !.bodyExc = raises,
                                      !.ups = IF raises THEN <<>> ELSE r.inputs]
          /\ sent' = IF raises THEN sent ELSE sent \o r.inputs
    /\ UNCHANGED pressCall
    /\ UNCHANGED <<loggerVars, runVars, stopPc, serverVars, replyVars, obsVars>>
    /\ UNCHANGED exceptIn

\* The block is left, by the end of its body or by an exception raised in
\* it (raises): the finally clause of the generator builds the key-up inputs
\* and sends them.
HoldLeave(raises) ==
    /\ holdSt.pc = "body"
    /\ LET r == HoldInputs(holdSt.keys, FALSE)
       IN /\ holdSt' = [holdSt EXCEPT !.pc = "left", !.bodyExc = raises, !.ups = r.inputs]
          /\ sent' = sent \o r.inputs
    /\ UNCHANGED pressCall
    /\ UNCHANGED <<loggerVars, runVars, stopPc, serverVars, replyVars, obsVars>>
    /\ UNCHANGED exceptIn

\* The extensions a server may list.
Extensions == {"RECORD", "XTEST", "MIT-SHM"}

\* A Logger constructed on a server that has RECORD, as ait._linux binds it
\* to `log`.
Init ==
    /\ InitFields
    /\ xserver = [reachable |-> TRUE, extensions |-> Extensions]
    /\ linux = [imported |-> "yes", log |-> "Logger"]
    /\ clickCall = NoCall
    /\ parseCall = NoParse

\* Before ait._linux is imported, on any server.
InitImport ==
    /\ InitFields
    /\ xserver \in [reachable : BOOLEAN, extensions : SUBSET Extensions]
    /\ linux = [imported |-> "no", log |-> "unbound"]
    /\ clickCall = NoCall
    /\ parseCall = NoParse

\* ------------------------------------------------- ait._linux, module level
\* try: log = Logger() / except ValueError: log = None.  Any other
\* exception of the constructor leaves the import.
ImportLinux ==
    /\ linux.imported = "no"
    /\ linux' = LET made == LoggerNew(xserver)
                IN IF made = "Logger" THEN [imported |-> "yes", log |-> "Logger"]
                   ELSE IF made = "ValueError" THEN [imported |-> "yes", log |-> None]
                   ELSE [imported |-> "raised", log |-> "unbound"]
    /\ UNCHANGED <<loggerVars, runVars, stopPc, serverVars, replyVars, obsVars>>
    /\ UNCHANGED <<exceptAit, xserver, clickCall, parseCall>>

\* ------------------------------------------------- keyboard(), mouse()
\* What a keyboard(func) call leaves in lastReg.
RegKey(func) ==
    [lastReg EXCEPT !.key = func,
                    !.keyReplaced = IF key_cb # func THEN key_cb ELSE @]

\* As Keyboard, with a callback already registered kept.
Keyboard_KeepsFirst(func) ==
    /\ key_cb' = IF key_cb = None THEN func ELSE key_cb
    /\ lastReg' = RegKey(func)
    /\ stopsInRow' = 0
    /\ UNCHANGED <<mouse_cb, context, mouse_pos, shift_held, caps_held>>
    /\ UNCHANGED <<runVars, stopPc, serverVars, replyVars, calls, buf, seen, stopInLoop>>
    /\ UNCHANGED exceptReg

Keyboard(func) ==
    /\ key_cb' = func
    /\ lastReg' = RegKey(func)
    /\ stopsInRow' = 0
    /\ UNCHANGED <<mouse_cb, context, mouse_pos, shift_held, caps_held>>
    /\ UNCHANGED <<runVars, stopPc, serverVars, replyVars, calls, buf, seen, stopInLoop>>
    /\ UNCHANGED exceptReg

Mouse(func) ==
    /\ mouse_cb' = func
    /\ stopsInRow' = 0
    /\ lastReg' = [lastReg EXCEPT !.mouse = func]
    /\ UNCHANGED <<key_cb, context, mouse_pos, shift_held, caps_held>>
    /\ UNCHANGED <<runVars, stopPc, serverVars, replyVars, calls, buf, seen, stopInLoop>>
    /\ UNCHANGED exceptReg

\* ---------------------------------------------------------------- run()
\* record_create_context and the assignment of its handle.
RunBegin ==
    /\ pc = "idle"
    /\ runs < MaxRuns
    /\ context' = runs + 1
    /\ runCtx' = runs + 1
    /\ runs' = runs + 1
    /\ ctxState' = [ctxState EXCEPT ![runs + 1] = "created"]
    /\ lastReq' = Req("record_dpy", "create", runs + 1, lastReq)
    /\ pc' = "created" /\ exc' = "none" /\ result' = "none"
    /\ stopsInRow' = 0 /\ stopInLoop' = FALSE
    /\ UNCHANGED <<key_cb, mouse_cb, mouse_pos, shift_held, caps_held>>
    /\ UNCHANGED <<stopPc, replyVars, calls, buf, seen>>

\* run() called on its own.
RunCreate ==
    /\ RunBegin
    /\ UNCHANGED extVars

\* record_enable_context(self._context, ...): the request goes out with the
\* handle the field holds now; with None it fails and the error propagates.
RunEnable ==
    /\ pc = "created"
    /\ lastReq' = Req("record_dpy", "enable", context, lastReq)
    /\ IF context = NoContext
       THEN /\ pc' = "finally" /\ exc' = "error"
            /\ UNCHANGED ctxState
       ELSE /\ pc' = "enabled" /\ UNCHANGED exc
            /\ ctxState' = [ctxState EXCEPT ![context] = "enabled"]
    /\ UNCHANGED <<loggerVars, result, runCtx, runs, stopPc, replyVars, obsVars>>
    /\ UNCHANGED extVars

\* The receive loop is left: no reply is in the handler any more.
HandlerLeft ==
    /\ reply' = NoReply
    /\ calls' = <<>>
    /\ buf' = NewBuf

\* The blocking receive ends: the server has disabled the context.
EnableReturns ==
    /\ pc = "enabled"
    /\ ctxState[runCtx] = "disabled"
    /\ pc' = "finally" /\ exc' = "none"
    /\ HandlerLeft
    /\ UNCHANGED <<loggerVars, result, runCtx, runs, stopPc, serverVars>>
    /\ UNCHANGED <<seen, stopsInRow, stopInLoop>>
    /\ UNCHANGED extVars

\* A KeyboardInterrupt is raised in the blocking receive.
Interrupt ==
    /\ pc = "enabled"
    /\ pc' = "finally" /\ exc' = "kbd"
    /\ HandlerLeft
    /\ UNCHANGED <<loggerVars, result, runCtx, runs, stopPc, serverVars>>
    /\ UNCHANGED <<seen, stopsInRow, stopInLoop>>
    /\ UNCHANGED extVars

\* The connection fails in the blocking receive.
ConnectionFault ==
    /\ pc = "enabled"
    /\ pc' = "finally" /\ exc' = "error"
    /\ HandlerLeft
    /\ UNCHANGED <<loggerVars, result, runCtx, runs, stopPc, serverVars>>
    /\ UNCHANGED <<seen, stopsInRow, stopInLoop>>
    /\ UNCHANGED extVars

\* How run() ends once the except/finally clauses have run: KeyboardInterrupt
\* is swallowed, anything else propagates.
RunResult(e) == IF e = "error" THEN "raised" ELSE "returned"

\* finally: record_free_context(self._context), with the handle the field
\* holds now.  With None no context is named; whether the call itself then
\* raises is the client library's choice, so both outcomes are kept.
RunFinally ==
    /\ pc = "finally"
    /\ lastReq' = Req("record_dpy", "free", context, lastReq)
    /\ IF context = NoContext
       THEN /\ UNCHANGED ctxState
            /\ result' \in {"raised", RunResult(exc)}
       ELSE /\ ctxState' = [ctxState EXCEPT ![context] = "freed"]
            /\ result' = RunResult(exc)
    /\ pc' = "idle"
    /\ UNCHANGED <<loggerVars, exc, runCtx, runs, stopPc, replyVars, obsVars>>
    /\ UNCHANGED extVars

\* ------------------------------------------ run() called by a second thread
\* run() has no test of whether a loop is running: a second thread that
\* calls it while the first is in its receive loop executes the same
\* statements on the same fields.  The records its own receive loop would
\* get are not followed.
Running == pc \in {"enabled", "loop"}

\* record_create_context and the assignment of its handle.
Run2Create ==
    /\ pc2 = "idle"
    /\ Running
    /\ runs < MaxRuns
    /\ context' = runs + 1
    /\ runs' = runs + 1
    /\ ctxState' = [ctxState EXCEPT ![runs + 1] = "created"]
    /\ lastReq' = Req("record_dpy", "create", runs + 1, lastReq)
    /\ pc2' = "created"
    /\ stopsInRow' = 0
    /\ UNCHANGED <<key_cb, mouse_cb, mouse_pos, shift_held, caps_held>>
    /\ UNCHANGED <<pc, exc, result, runCtx, stopPc, replyVars, calls, buf, seen, stopInLoop>>
    /\ UNCHANGED exceptCall

\* record_enable_context(self._context, ...), as in RunEnable.
Run2Enable ==
    /\ pc2 = "created"
    /\ lastReq' = Req("record_dpy", "enable", context, lastReq)
    /\ IF context = NoContext
       THEN /\ pc2' = "finally"
            /\ UNCHANGED ctxState
       ELSE /\ pc2' = "enabled"
            /\ ctxState' = [ctxState EXCEPT ![context] = "enabled"]
    /\ UNCHANGED <<loggerVars, runVars, stopPc, replyVars, obsVars>>
    /\ UNCHANGED exceptCall

\* The second thread's blocking receive ends: its context was disabled, a
\* KeyboardInterrupt was raised or the connection failed.
Run2Leaves ==
    /\ pc2 = "enabled"
    /\ pc2' = "finally"
    /\ UNCHANGED <<loggerVars, runVars, stopPc, serverVars, replyVars, obsVars>>
    /\ UNCHANGED exceptCall

\* finally: record_free_context(self._context), as in RunFinally.
Run2Finally ==
    /\ pc2 = "finally"
    /\ lastReq' = Req("record_dpy", "free", context, lastReq)
    /\ ctxState' = IF context = NoContext THEN ctxState
                   ELSE [ctxState EXCEPT ![context] = "freed"]
    /\ pc2' = "idle"
    /\ UNCHANGED <<loggerVars, runVars, stopPc, replyVars, obsVars>>
    /\ UNCHANGED exceptCall

\* --------------------------------------------------------------- stop()
Min(a, b) == IF a < b THEN a ELSE b

\* `if self._context:` -- with no context stop() returns at once.
StopCheck ==
    /\ stopPc = "idle"
    /\ IF context # NoContext
       THEN /\ stopPc' = "disable"
            /\ stopInLoop' = (stopInLoop \/ pc \in {"enabled", "loop"})
            /\ UNCHANGED stopsInRow
       ELSE /\ stopPc' = "idle"
            /\ stopsInRow' = Min(2, stopsInRow + 1)
            /\ UNCHANGED stopInLoop
    /\ UNCHANGED <<loggerVars, runVars, serverVars, replyVars, calls, buf, seen>>
    /\ UNCHANGED extVars

\* record_disable_context(self._context) and flush, on local_dpy.  A handle
\* cleared in the meantime makes the request fail and stop() raise.
StopDisable ==
    /\ stopPc = "disable"
    /\ lastReq' = Req("local_dpy", "disable", context, lastReq)
    /\ ctxState' = ServerDisable(ctxState, context)
    /\ stopPc' = IF context = NoContext THEN "idle" ELSE "clear"
    /\ stopsInRow' = IF context = NoContext THEN 0 ELSE stopsInRow
    /\ UNCHANGED <<loggerVars, runVars, replyVars, calls, buf, seen, stopInLoop>>
    /\ UNCHANGED extVars

\* As StopClear, without the assignment.
StopClear_KeepsHandle ==
    /\ stopPc = "clear"
    /\ stopPc' = "idle"
    /\ stopsInRow' = 1
    /\ UNCHANGED <<loggerVars, runVars, serverVars, replyVars, calls, buf, seen, stopInLoop>>
    /\ UNCHANGED extVars

\* self._context = None
StopClear ==
    /\ stopPc = "clear"
    /\ context' = NoContext
    /\ stopPc' = "idle"
    /\ stopsInRow' = 1
    /\ UNCHANGED <<key_cb, mouse_cb, mouse_pos, shift_held, caps_held>>
    /\ UNCHANGED <<runVars, serverVars, replyVars, calls, buf, seen, stopInLoop>>
    /\ UNCHANGED extVars

\* stop() called from inside an observer callback: the whole method runs on
\* the run thread before the callback returns.
StopInCallback ==
    /\ IF context # NoContext
       THEN /\ lastReq' = Req("local_dpy", "disable", context, lastReq)
            /\ ctxState' = ServerDisable(ctxState, context)
            /\ context' = NoContext
            /\ stopInLoop' = TRUE
            /\ stopsInRow' = 1
       ELSE /\ UNCHANGED <<lastReq, ctxState, context, stopInLoop>>
            /\ stopsInRow' = Min(2, stopsInRow + 1)

\* ------------------------------------------------- __enter__, __exit__
\* `with logger:` -- __enter__ calls self.run() on the thread of the `with`
\* statement; the steps of that run() are those above.
Enter ==
    /\ withPc = "out"
    /\ RunBegin
    /\ withPc' = "enter"
    /\ bodyExc' = FALSE
    /\ UNCHANGED exceptWith

\* run() has ended: __enter__ returns self and the body begins, or the
\* exception of run() leaves the `with` statement, which then calls no
\* __exit__.
EnterReturns ==
    /\ withPc = "enter"
    /\ pc = "idle"
    /\ withPc' = IF result = "returned" THEN "body" ELSE "out"
    /\ UNCHANGED <<loggerVars, runVars, stopPc, serverVars, replyVars, obsVars>>
    /\ UNCHANGED <<exceptWith, bodyExc>>

\* The body of the `with` statement ends, normally or by an exception.
BodyEnds ==
    /\ withPc = "body"
    /\ withPc' = "exit"
    /\ bodyExc' \in BOOLEAN
    /\ UNCHANGED <<loggerVars, runVars, stopPc, serverVars, replyVars, obsVars>>
    /\ UNCHANGED exceptWith

\* As Exit, with stop() called only when the body ended normally.
Exit_OnlyOnNormalExit ==
    /\ withPc = "exit"
    /\ IF context # NoContext /\ ~bodyExc
       THEN /\ lastReq' = Req("local_dpy", "disable", context, lastReq)
            /\ ctxState' = ServerDisable(ctxState, context)
            /\ context' = NoContext
            /\ stopsInRow' = 1
       ELSE /\ UNCHANGED <<lastReq, ctxState, context>>
            /\ stopsInRow' = IF bodyExc THEN stopsInRow ELSE Min(2, stopsInRow + 1)
    /\ withPc' = "out"
    /\ UNCHANGED <<key_cb, mouse_cb, mouse_pos, shift_held, caps_held>>
    /\ UNCHANGED <<runVars, stopPc, replyVars, calls, buf, seen, stopInLoop>>
    /\ UNCHANGED <<exceptWith, bodyExc>>

\* __exit__(self, *_): self.stop(), whatever the arguments say of how the
\* body ended; it returns None, so an exception of the body goes on.
Exit ==
    /\ withPc = "exit"
    /\ IF context # NoContext
       THEN /\ lastReq' = Req("local_dpy", "disable", context, lastReq)
            /\ ctxState' = ServerDisable(ctxState, context)
            /\ context' = NoContext
            /\ stopsInRow' = 1
       ELSE /\ UNCHANGED <<lastReq, ctxState, context>>
            /\ stopsInRow' = Min(2, stopsInRow + 1)
    /\ withPc' = "out"
    /\ UNCHANGED <<key_cb, mouse_cb, mouse_pos, shift_held, caps_held>>
    /\ UNCHANGED <<runVars, stopPc, replyVars, calls, buf, seen, stopInLoop>>
    /\ UNCHANGED <<exceptWith, bodyExc>>

\* ------------------------------------------------- Logger._process_events
\* The first bytes a reply's data may have: the type of a record, or a byte
\* below 2 (the code of an error or of a reply).
FirstBytes(recs) == {r.type : r \in recs} \cup {1}

\* The handler is entered with a reply whose records come from recs: the
\* validity check, and for a valid reply `data = reply.data`.
ProcessEventsBegin(recs) ==
    /\ pc = "enabled"
    /\ ctxState[runCtx] = "enabled"
    /\ \E cat \in {"FromServer", "FromClient"}, sw \in BOOLEAN, emp \in BOOLEAN :
         \E b \in (IF emp THEN {0} ELSE FirstBytes(recs)) :
            reply' = [category |-> cat, client_swapped |-> sw, empty |-> emp, first |-> b]
    /\ pc' = IF ReplyValid(reply') THEN "loop" ELSE "enabled"
    /\ calls' = <<>>
    /\ buf' = NewBuf
    /\ UNCHANGED <<loggerVars, exc, result, runCtx, runs, stopPc, serverVars>>
    /\ UNCHANGED <<seen, stopsInRow, stopInLoop>>
    /\ UNCHANGED extVars

Example == <<Rec(KeyPress, 38, 5, 5), Rec(MotionNotify, 0, 10, 20), Rec(ButtonPress, Button1, 7, 7)>>

IsKeyRec(r) == r.type \in {KeyPress, KeyRelease}
IsMouseRec(r) == r.type \in {ButtonPress, ButtonRelease, MotionNotify}

BufAfter(b, r, made) ==
    [n |-> b.n + 1,
     rec |-> r,
     invoked |-> b.invoked \/ made # <<>>,
     onlyMouse |-> b.onlyMouse /\ IsMouseRec(r),
     lastMotion |-> IF r.type = MotionNotify THEN Some(<<r.root_x, r.root_y>>)
                    ELSE b.lastMotion,
     ex |-> IF b.ex = b.n /\ b.n < Len(Example) /\ r = Example[b.n + 1]
            THEN b.ex + 1 ELSE b.ex]

SeenAfter(s, r, kcb, mcb) ==
    [lastMotion |-> IF r.type = MotionNotify THEN <<r.root_x, r.root_y>>
                    ELSE s.lastMotion,
     capsPresses |-> IF r.type = KeyPress /\ KeycodeToKeysym(r.detail, 0) = XK_Caps_Lock
                     THEN (IF s.capsPresses = 3 THEN 2 ELSE s.capsPresses + 1)
                     ELSE s.capsPresses,
     missedKey |-> s.missedKey \/ (IsKeyRec(r) /\ kcb = None),
     missedMotion |-> s.missedMotion \/ (r.type = MotionNotify /\ mcb = None)]

\* One iteration of `while data:` on the record event parsed off the head of
\* data: the keyboard callback and then the mouse callback are offered it.
\* With mayStop the callback invoked may call stop().  The loop goes on
\* while data is left.
LoopBody(event, mayStop) ==
    LET k == KeyDispatch(key_cb, shift_held, caps_held, event)
        m == MouseDispatch(mouse_cb, mouse_pos, event)
        made == k.calls \o m.calls
    IN /\ shift_held' = k.shift
       /\ caps_held' = k.caps
       /\ mouse_pos' = m.pos
       /\ calls' = made
       /\ buf' = BufAfter(buf, event, made)
       /\ seen' = SeenAfter(seen, event, key_cb, mouse_cb)
       /\ \/ /\ mayStop
             /\ made # <<>>
             /\ StopInCallback
          \/ UNCHANGED <<lastReq, ctxState, context, stopInLoop, stopsInRow>>

LoopIter(recs, maxLen, mayStop) ==
    /\ pc = "loop"
    /\ \E event \in recs :
         /\ buf.n = 0 => event.type = reply.first
         /\ LoopBody(event, mayStop)
    /\ \/ /\ buf.n + 1 < maxLen
          /\ pc' = "loop"
       \/ pc' = "enabled"
    /\ UNCHANGED <<key_cb, mouse_cb, exc, result, runCtx, runs, stopPc, reply>>

LoopStep(recs, maxLen, mayStop) ==
    /\ LoopIter(recs, maxLen, mayStop)
    /\ UNCHANGED extVars

\* The record stream after the loop iteration on record r that made the
\* invocations made.
HistAfter(h, r, made, kcb, mcb) ==
    [decoded |-> Append(h.decoded, r),
     delivered |-> h.delivered \o [i \in 1 .. Len(made) |-> made[i].rec],
     missed |-> \/ h.missed
                \/ IsKeyRec(r) /\ kcb = None
                \/ IsMouseRec(r) /\ mcb = None]

\* A loop iteration with the record stream followed.
LoopStepTraced(recs, maxLen) ==
    /\ Len(hist.decoded) < MaxHist
    /\ LoopIter(recs, maxLen, FALSE)
    /\ hist' = HistAfter(hist, buf'.rec, calls', key_cb, mouse_cb)
    /\ UNCHANGED exceptHist

\* ------------------------------------------------------------ specification
\* The life cycle of the logger: run(), stop() from a second thread and from
\* callbacks, interrupts and faults, with a small record alphabet.
LifeRecords == {Rec(KeyPress, 66, 5, 5)}

Next ==
    \/ \E func \in Callbacks : Keyboard(func)
    \/ \E func \in Callbacks : Mouse(func)
    \/ RunCreate
    \/ RunEnable
    \/ ProcessEventsBegin(LifeRecords)
    \/ LoopStep(LifeRecords, 1, TRUE)
    \/ EnableReturns
    \/ Interrupt
    \/ ConnectionFault
    \/ RunFinally
    \/ StopCheck
    \/ StopDisable
    \/ StopClear

Spec == Init /\ [][Next]_vars

\* The decoding of the record stream during one run(), over all records.
NextDecode ==
    \/ \E func \in Callbacks : Keyboard(func)
    \/ \E func \in Callbacks : Mouse(func)
    \/ RunCreate
    \/ RunEnable
    \/ ProcessEventsBegin(Records)
    \/ LoopStep(Records, MaxLen, FALSE)

SpecDecode == Init /\ [][NextDecode]_vars

\* The life cycle with a second thread that calls run() while the first is
\* in its receive loop; replies are not followed.
NextReentry ==
    \/ RunCreate
    \/ RunEnable
    \/ EnableReturns
    \/ Interrupt
    \/ ConnectionFault
    \/ RunFinally
    \/ StopCheck
    \/ StopDisable
    \/ StopClear
    \/ Run2Create
    \/ Run2Enable
    \/ Run2Leaves
    \/ Run2Finally

SpecReentry == Init /\ [][NextReentry]_vars

\* The logger used in `with` statements: run() is called by __enter__ only;
\* callbacks and a second thread may call stop().
NextWith ==
    \/ \E func \in Callbacks : Keyboard(func)
    \/ Enter
    \/ RunEnable
    \/ ProcessEventsBegin(LifeRecords)
    \/ LoopStep(LifeRecords, 1, TRUE)
    \/ EnableReturns
    \/ Interrupt
    \/ ConnectionFault
    \/ RunFinally
    \/ EnterReturns
    \/ BodyEnds
    \/ Exit
    \/ StopCheck
    \/ StopDisable
    \/ StopClear

SpecWith == Init /\ [][NextWith]_vars

\* Registration: two functions are registered and replaced while records of
\* both classes are decoded.
TwoCallbacks == {"f", "g"}
RegRecords == {Rec(KeyPress, 38, 5, 5), Rec(MotionNotify, 0, 10, 20)}

NextRegister ==
    \/ \E func \in TwoCallbacks : Keyboard(func)
    \/ \E func \in TwoCallbacks : Mouse(func)
    \/ RunCreate
    \/ RunEnable
    \/ ProcessEventsBegin(RegRecords)
    \/ LoopStep(RegRecords, 2, FALSE)

SpecRegister == Init /\ [][NextRegister]_vars

\* The order of delivery: the record stream of one run() is followed over
\* several reply buffers.
OrderRecords ==
    {Rec(KeyPress, 38, 5, 5), Rec(KeyRelease, 38, 5, 5), Rec(MotionNotify, 0, 10, 20),
     Rec(ButtonPress, Button1, 7, 7), Rec(7, 0, 5, 5)}

NextOrder ==
    \/ \E func \in Callbacks : Keyboard(func)
    \/ \E func \in Callbacks : Mouse(func)
    \/ RunCreate
    \/ RunEnable
    \/ ProcessEventsBegin(OrderRecords)
    \/ LoopStepTraced(OrderRecords, 2)

SpecOrder == Init /\ [][NextOrder]_vars

\* The two Shift keys and a letter: the record stream of one run() is
\* followed as in SpecOrder.
ShiftRecords ==
    {Rec(t, k, 5, 5) : t \in {KeyPress, KeyRelease}, k \in {50, 62}}
    \cup {Rec(KeyPress, 38, 5, 5)}

NextShift ==
    \/ \E func \in Callbacks : Keyboard(func)
    \/ \E func \in Callbacks : Mouse(func)
    \/ RunCreate
    \/ RunEnable
    \/ ProcessEventsBegin(ShiftRecords)
    \/ LoopStepTraced(ShiftRecords, 2)

SpecShift == Init /\ [][NextShift]_vars

\* The import of ait._linux on any server, and the use of `log` afterwards
\* where it is bound to a Logger.
NextImport ==
    \/ ImportLinux
    \/ linux.log = "Logger" /\ \E func \in Callbacks : Keyboard(func)
    \/ linux.log = "Logger" /\ \E func \in Callbacks : Mouse(func)
    \/ linux.log = "Logger" /\ RunCreate
    \/ linux.log = "Logger" /\ RunEnable
    \/ linux.log = "Logger" /\ Interrupt
    \/ linux.log = "Logger" /\ RunFinally
    \/ linux.log = "Logger" /\ StopCheck
    \/ linux.log = "Logger" /\ StopDisable
    \/ linux.log = "Logger" /\ StopClear

SpecImport == InitImport /\ [][NextImport]_vars

\* Calls of ait.click on both platforms.
NextClick ==
    \/ \E args \in ArgLists :
          \/ Click("nt", TRUE, args)
          \/ \E xdotool \in BOOLEAN : Click("posix", xdotool, args)
    \/ \E value \in ParseValues : Parse(value)

SpecClick == Init /\ [][NextClick]_vars

\* The iterator of events() on Windows while keys go down and up.
NextEvents ==
    \/ \E vk \in Vks : KeyChange(vk)
    \/ EventsIter
    \/ EventsNext

SpecEvents == Init /\ [][NextEvents]_vars

\* The properties of a KeyEvent, over events of every keysym and flag.
NextKeyProp ==
    \E key \in PropKeysyms : \E down, shift, caps \in BOOLEAN :
        \/ Name(KeyEvent(key, down, shift, caps))
        \/ Ord(KeyEvent(key, down, shift, caps))

SpecKeyProp == Init /\ [][NextKeyProp]_vars

\* One call of press on Windows.
NextPress == \E keys \in KeyLists : Press(keys)

SpecPress == Init /\ [][NextPress]_vars

\* One `with hold(...)` statement, on either platform.
NextHold ==
    \/ \E platform \in {"nt", "posix"} : \E keys \in KeyLists : Hold(platform, keys)
    \/ \E key \in BodyKeys : HoldBodyPress(key)
    \/ \E raises \in BOOLEAN : HoldLeave(raises)

SpecHold == Init /\ [][NextHold]_vars

\* =================================================================== claims
\* A step of the handler's loop: it is the only step that counts a record.
IsLoopStep == buf'.n = buf.n + 1

\* The invocation the latest loop step made, where it made one.
Invoked == calls # <<>>
LastCall == calls[1]

\* The keysym the group rule gives a keycode under a modifier state.
GroupKeysym(shift, caps, keycode) ==
    IF (shift \/ caps) /\ KeycodeToKeysym(keycode, 0) \in shiftable
    THEN KeycodeToKeysym(keycode, 1)
    ELSE KeycodeToKeysym(keycode, 0)

\* C1: every key record that is delivered carries the group-0 keysym of its
\* keycode when neither Shift nor Caps Lock is active before the record or
\* the group-0 keysym is not shiftable, and the group-1 keysym when one of
\* them is active and the group-0 keysym is shiftable.
C1_GroupResolution ==
    [][(IsLoopStep /\ calls' # <<>> /\ calls'[1].kind = "key")
        => LET c == calls'[1]
               k0 == KeycodeToKeysym(c.rec.detail, 0)
               k1 == KeycodeToKeysym(c.rec.detail, 1)
           IN /\ (~shift_held /\ ~caps_held) => c.ev.key = k0
              /\ ((shift_held \/ caps_held) /\ k0 \in shiftable) => c.ev.key = k1
              /\ k0 \notin shiftable => c.ev.key = k0]_vars

\* C1 witness: 'a' was delivered as 'A' while a modifier was active, Shift
\* in one case and Caps Lock alone in another.
C1_Witness ==
    /\ Invoked /\ LastCall.kind = "key"
    /\ LastCall.rec.detail = 38 /\ LastCall.ev.key = 65
    /\ LastCall.ev.caps /\ ~LastCall.ev.shift

IsCapsPress(r) == r.type = KeyPress /\ KeycodeToKeysym(r.detail, 0) = XK_Caps_Lock

\* C2: while a keyboard callback is registered, a loop step toggles
\* caps_held exactly when its record is a Caps Lock press; so, where no key
\* record was decoded without a keyboard callback, caps_held is the parity
\* of the Caps Lock presses, and a delivered press of 'a' is 'A' after an
\* odd number of them and, with Shift not held, 'a' after an even number.
C2_CapsToggle ==
    [][/\ (IsLoopStep /\ key_cb # None)
          => caps_held' = (IF IsCapsPress(buf'.rec) THEN ~caps_held ELSE caps_held)
       /\ ~seen'.missedKey
          => /\ caps_held' = (seen'.capsPresses % 2 = 1)
             /\ (/\ calls' # <<>> /\ calls'[1].kind = "key"
                 /\ calls'[1].rec = Rec(KeyPress, 38, 5, 5))
                => calls'[1].ev.key =
                     (IF seen'.capsPresses % 2 = 1 \/ shift_held' THEN 65 ELSE 97)]_vars

\* C2 witness: after a second Caps Lock press, with Shift not held, a press
\* of 'a' was delivered as 'a'.
C2_Witness ==
    /\ ~seen.missedKey /\ seen.capsPresses = 2 /\ ~shift_held
    /\ Invoked /\ LastCall.kind = "key"
    /\ LastCall.rec = Rec(KeyPress, 38, 5, 5) /\ LastCall.ev.key = 97

IsButtonRec(r) == r.type \in {ButtonPress, ButtonRelease}

\* C3: where no motion record was decoded without a mouse callback, every
\* button event delivered carries the coordinates of the last motion record
\* decoded ((0, 0) before the first), not the record's own; and in the
\* buffer [KeyPress(a), Motion(10,20), ButtonPress(1)] the second record is
\* delivered as a motion event and the third as a button press at (10, 20).
C3_ButtonPosition ==
    ~seen.missedMotion =>
        /\ (Invoked /\ LastCall.kind = "mouse" /\ IsButtonRec(LastCall.rec))
           => /\ LastCall.ev.pos = seen.lastMotion
              /\ LastCall.ev.down = Some(LastCall.rec.type = ButtonPress)
              /\ ~LastCall.ev.move
        /\ (buf.ex = 2 /\ buf.n = 2 /\ mouse_cb # None)
           => /\ Len(calls) = 1 /\ LastCall.kind = "mouse"
              /\ LastCall.ev.move /\ LastCall.ev.pos = <<10, 20>>
        /\ (buf.ex = 3 /\ buf.n = 3 /\ mouse_cb # None)
           => /\ Len(calls) = 1 /\ LastCall.kind = "mouse"
              /\ LastCall.ev.down = Some(TRUE) /\ LastCall.ev.pos = <<10, 20>>
              /\ LastCall.ev.other = Button1

\* C3 witness: the three-record buffer was decoded to its end with a mouse
\* callback registered throughout.
C3_Witness ==
    /\ buf.ex = 3 /\ buf.n = 3 /\ ~seen.missedMotion /\ mouse_cb # None /\ Invoked
    /\ LastCall.rec.root_x # LastCall.ev.x

\* C4: when the handler is entered with a reply whose category is not
\* FromServer, or that is client_swapped, or whose data is empty or starts
\* with a byte below 2, it returns to the receive loop having invoked no
\* callback and having left shift_held, caps_held, the pointer position,
\* both callbacks and the context handle as they were.
C4_InvalidReplyDropped ==
    [][(/\ pc = "enabled" /\ reply' # reply /\ reply' # NoReply
        /\ \/ reply'.category # "FromServer"
           \/ reply'.client_swapped
           \/ reply'.empty
           \/ reply'.first < 2)
       => /\ pc' = "enabled"
          /\ calls' = <<>>
          /\ UNCHANGED <<shift_held, caps_held, mouse_pos, key_cb, mouse_cb, context>>]_vars

\* C4 witness: a reply invalid only by its client_swapped flag was dropped
\* while both callbacks were registered.
C4_Witness ==
    /\ pc = "enabled" /\ calls = <<>>
    /\ reply.category = "FromServer" /\ reply.client_swapped
    /\ ~reply.empty /\ reply.first >= 2
    /\ key_cb # None /\ mouse_cb # None

\* C5: a stop() that begins when the last call completed on the logger was
\* a stop() returns at once, from the second thread or from a callback: no
\* request on either connection, no field and no context changed.
C5_StopTwice ==
    [][/\ (stopsInRow >= 1 /\ StopCheck)
          => UNCHANGED <<loggerVars, serverVars, stopPc, runVars>>
       /\ (stopsInRow = 1 /\ stopsInRow' = 2)
          => UNCHANGED <<context, key_cb, mouse_cb, serverVars, stopPc>>]_vars

\* C5 witness: a stop() that disabled a context was followed by a second
\* stop().
C5_Witness ==
    /\ stopsInRow = 2 /\ runs >= 1 /\ lastReq.op = "disable" /\ stopPc = "idle"

\* run() has ended.
RunEnded == pc = "idle" /\ result # "none"

\* C6: when stop() was called while run() was in the receive loop, from the
\* second thread or from a callback, and the loop ended by that, run()
\* returns without raising, the context it created is freed, and the free
\* request does not carry a cleared handle.
C6_StopDuringRun ==
    (RunEnded /\ stopInLoop /\ exc = "none")
    => /\ result = "returned"
       /\ ctxState[runCtx] = "freed"
       /\ ~(lastReq.op = "free" /\ lastReq.ctx = NoContext)

\* C7: a loop step on a Shift or Caps Lock record taken while no keyboard
\* callback is registered updates the modifier state as it would with one:
\* a Shift press sets shift_held, a Shift release clears it, a Caps Lock
\* press toggles caps_held.
C7_TrackingWithoutCallback ==
    [][(IsLoopStep /\ key_cb = None)
       => LET r == buf'.rec
              k0 == KeycodeToKeysym(r.detail, 0)
          IN /\ (r.type = KeyPress /\ k0 \in shift_keys) => shift_held'
             /\ (r.type = KeyRelease /\ k0 \in shift_keys) => ~shift_held'
             /\ IsCapsPress(r) => caps_held' = ~caps_held]_vars

\* C8: when a valid buffer of mouse records only has been processed with a
\* keyboard callback and no mouse callback registered, no callback was
\* invoked and the pointer position is that of the buffer's last motion
\* record.
C8_PointerWithoutCallback ==
    (/\ pc = "enabled" /\ buf.n > 0 /\ buf.onlyMouse
     /\ key_cb # None /\ mouse_cb = None)
    => /\ ~buf.invoked
       /\ buf.lastMotion # NoneVal => mouse_pos = buf.lastMotion[1]

\* C9: when the receive loop was ended by a KeyboardInterrupt run() returns
\* normally, when it was ended by another exception run() raises, and in
\* both cases the context this run() created has been freed when it ends.
C9_InterruptAndFault ==
    RunEnded
    => /\ exc = "kbd" => result = "returned"
       /\ exc = "error" => result = "raised"
       /\ exc \in {"kbd", "error"} => ctxState[runCtx] = "freed"

\* C10: a stop() that begins while no run() is in progress returns at once,
\* and no disable request is ever sent for a context that is freed.
C10_StopWhenNotRunning ==
    [][/\ (pc = "idle" /\ StopCheck) => UNCHANGED <<stopPc, serverVars, context>>
       /\ (lastReq'.n # lastReq.n /\ lastReq'.op = "disable" /\ lastReq'.ctx \in ContextIds)
          => ctxState[lastReq'.ctx] # "freed"]_vars

\* The contexts the server holds that were created and not yet freed.
LiveContexts == {i \in ContextIds : ctxState[i] \in {"created", "enabled", "disabled"}}

\* C11: a run() that begins while the logger is in its receive loop creates
\* no context and leaves the stored handle as it was, and while a receive
\* loop runs at most one context of the logger is live.
C11_NotReentrant ==
    [][/\ (Running /\ pc2 = "idle" /\ pc2' # "idle")
          => UNCHANGED <<context, ctxState, runs>>
       /\ Running' => Cardinality(LiveContexts') <= 1]_vars

\* C12: at the step in which run() begins, shift_held and caps_held are both
\* false afterwards, whatever an earlier run() on the same Logger left.
C12_ModifierReset ==
    [][(pc = "idle" /\ pc' = "created") => (~shift_held' /\ ~caps_held')]_vars

\* C13: while the body of a `with` statement on the logger executes, the
\* logger is in its receive loop and the context it created is enabled.
C13_RunningInBody ==
    withPc = "body" => (Running /\ ctxState[runCtx] = "enabled")

\* C14: when the body of a `with` statement ends, normally or by an
\* exception, __exit__ is what follows, and the step of __exit__ is a whole
\* stop(): a stored handle is named in a disable request, and after the
\* step the stored handle is cleared.
C14_ExitStops ==
    [][/\ (withPc = "body" /\ withPc' # "body") => withPc' = "exit"
       /\ (withPc = "exit" /\ withPc' # "exit")
          => /\ withPc' = "out"
             /\ context' = NoContext
             /\ stopsInRow' >= 1
             /\ context # NoContext
                => /\ lastReq'.n # lastReq.n
                   /\ lastReq'.op = "disable" /\ lastReq'.ctx = context]_vars

\* C14 witness: a body that ended by an exception has been left, and the
\* stop() of __exit__ found a handle stored and cleared it.
C14_Witness ==
    /\ withPc = "out" /\ bodyExc /\ stopPc = "idle"
    /\ stopsInRow = 1 /\ lastReq.op = "disable" /\ context = NoContext

\* C15: the keyboard callback is the argument of the latest keyboard() call
\* and the mouse callback that of the latest mouse() call, so a keyboard()
\* call leaves the mouse callback alone and the reverse; and every
\* invocation a loop step makes is of the function registered last for the
\* class of its record, and of no other.
C15_LastRegistrationWins ==
    [][/\ key_cb' = lastReg'.key /\ mouse_cb' = lastReg'.mouse
       /\ lastReg'.mouse = lastReg.mouse => mouse_cb' = mouse_cb
       /\ lastReg'.key = lastReg.key => key_cb' = key_cb
       /\ IsLoopStep
          => \A i \in 1 .. Len(calls') :
                calls'[i].cb = (IF calls'[i].kind = "key" THEN lastReg.key
                                ELSE lastReg.mouse)]_vars

\* C15 witness: keyboard(g) replaced f while f stayed the mouse callback,
\* and a key record was then delivered to g.
C15_Witness ==
    /\ lastReg.keyReplaced = "f" /\ lastReg.key = "g" /\ lastReg.mouse = "f"
    /\ Invoked /\ LastCall.kind = "key" /\ LastCall.cb = "g" /\ Len(calls) = 1

\* The invocations a loop step on record r makes when callback cb is the
\* one registered for the class of r: none without a callback, else one, of
\* cb, for r, of the class given.
OneCall(made, cb, kind, r) ==
    IF cb = None THEN made = <<>>
    ELSE /\ Len(made) = 1
         /\ made[1].cb = cb /\ made[1].kind = kind /\ made[1].rec = r

\* C16: a loop step makes at most one invocation: for a key record one of
\* the keyboard callback and none of the mouse callback, for a button or
\* motion record one of the mouse callback and none of the keyboard
\* callback, for any other record none.
C16_OneInvocationPerRecord ==
    [][IsLoopStep
       => LET r == buf'.rec
          IN /\ Len(calls') <= 1
             /\ IsKeyRec(r) => OneCall(calls', key_cb, "key", r)
             /\ IsMouseRec(r) => OneCall(calls', mouse_cb, "mouse", r)
             /\ (~IsKeyRec(r) /\ ~IsMouseRec(r)) => calls' = <<>>]_vars

\* C16 witness: with both callbacks registered a key release was decoded
\* and made one invocation, of the keyboard callback.
C16_Witness ==
    /\ key_cb # None /\ mouse_cb # None
    /\ buf.rec.type = KeyRelease /\ Len(calls) = 1 /\ LastCall.kind = "key"

\* The key, button and motion records of a sequence of records, in order.
Deliverable(recs) == SelectSeq(recs, LAMBDA r : IsKeyRec(r) \/ IsMouseRec(r))

\* C17: where no record was decoded while the callback of its class was
\* unset, the records the invocations were made for are, in order, the key,
\* button and motion records decoded, over all reply buffers; an invocation
\* is made only in the loop step that decodes its record, so none is left
\* over for a later record or a later reply.
C17_DeliveredInOrder ==
    [][/\ ~hist'.missed => hist'.delivered = Deliverable(hist'.decoded)
       /\ hist'.delivered # hist.delivered
          => /\ IsLoopStep
             /\ hist'.decoded = Append(hist.decoded, buf'.rec)
             /\ hist'.delivered = Append(hist.delivered, buf'.rec)]_vars

\* C17 witness: three records in two reply buffers, the second of a type
\* that is not delivered, made two invocations in the records' order.
C17_Witness ==
    /\ ~hist.missed /\ buf.n = 1
    /\ hist.decoded = <<Rec(KeyRelease, 38, 5, 5), Rec(7, 0, 5, 5),
                        Rec(ButtonPress, Button1, 7, 7)>>
    /\ hist.delivered = <<hist.decoded[1], hist.decoded[3]>>

\* The wheel value of a button code.
WheelOf(code) == IF code = Button4 THEN 1 ELSE IF code = Button5 THEN -1 ELSE 0

\* C18: a mouse event delivered for a button record has wheel 1 for
\* Button4, -1 for Button5 and 0 for any other code, press or release; one
\* delivered for a motion record has wheel 0; and MouseEvent gives every
\* button code from 0 to 15 these values.
C18_Wheel ==
    /\ (Invoked /\ LastCall.kind = "mouse")
       => /\ IsButtonRec(LastCall.rec) => LastCall.ev.wheel = WheelOf(LastCall.rec.detail)
          /\ LastCall.rec.type = MotionNotify => LastCall.ev.wheel = 0
    /\ \A code \in 0 .. 15 : \A down \in BOOLEAN :
          MouseEvent(code, Some(down), mouse_pos, FALSE).wheel = WheelOf(code)

\* C18 witness: a Button5 record was delivered with wheel -1.
C18_Witness ==
    /\ Invoked /\ LastCall.kind = "mouse"
    /\ IsButtonRec(LastCall.rec) /\ LastCall.rec.detail = Button5
    /\ LastCall.ev.wheel = -1

\* C19: on a server that is reached and does not list RECORD the
\* constructor raises ValueError; the import of ait._linux then ends
\* normally with log bound to None, no Logger exists, and no request for a
\* context is ever sent.
C19_NoRecordNoLogger ==
    (xserver.reachable /\ "RECORD" \notin xserver.extensions)
    => /\ LoggerNew(xserver) = "ValueError"
       /\ linux.imported \in {"no", "yes"}
       /\ linux.imported = "yes" => linux.log = None
       /\ linux.log # "Logger"
       /\ \A i \in ContextIds : ctxState[i] = "none"
       /\ lastReq.op = "none" /\ context = NoContext

\* C19 witness: ait._linux was imported on a server that lists XTEST and
\* not RECORD.
C19_Witness ==
    /\ xserver.reachable /\ xserver.extensions = {"XTEST"}
    /\ linux.imported = "yes" /\ linux.log = None

\* What the documentation of click gives a call whose coordinates are
\* numbers and whose button is one MB.parse knows.
Documented(args) ==
    IF Len(args) = 0 THEN Outcome("none", <<Eff("click", 0, 0, "L")>>)
    ELSE IF Len(args) = 1
    THEN Outcome("none", <<Eff("click", 0, 0, MBparse(args[1]))>>)
    ELSE IF Len(args) = 2
    THEN Outcome("none", <<Eff("move", args[1].n, args[2].n, ""), Eff("click", 0, 0, "L")>>)
    ELSE IF Len(args) = 3
    THEN Outcome("none", <<Eff("move", args[1].n, args[2].n, ""),
                           Eff("click", 0, 0, MBparse(args[3]))>>)
    ELSE Outcome("TypeError", <<>>)

WellFormed(args) ==
    /\ Len(args) \in {1, 3} => MBparse(args[Len(args)]) \in Buttons
    /\ Len(args) \in {2, 3} => (~args[1].isStr /\ ~args[2].isStr)

\* C20: on either platform (with xdotool present on Linux) a call of click
\* with numbers for coordinates and a known button does what is documented
\* for its shape: click() clicks left, click(button) clicks the button,
\* click(x, y) moves and then clicks left, click(x, y, button) moves and
\* then clicks the button; any other number of arguments raises TypeError.
C20_ClickShapes ==
    (clickCall.called /\ clickCall.xdotool /\ WellFormed(clickCall.args))
    => clickCall.out = Documented(clickCall.args)

\* The button the documentation gives a value, "none" where it gives none.
DocumentedButton(value) ==
    IF ~value.isStr
    THEN IF value.n < 0 THEN "L" ELSE IF value.n > 0 THEN "R" ELSE "M"
    ELSE IF value.s \in {"L", "l", "LMB", "lmb"} THEN "L"
    ELSE IF value.s \in {"M", "m", "MMB", "Mmb"} THEN "M"
    ELSE IF value.s \in {"R", "r", "RMB", "rMB"} THEN "R"
    ELSE "none"

\* C21: a call of MB.parse returns the left button for a negative number,
\* 'L' and 'LMB', the middle button for 0, 'M' and 'MMB', the right button
\* for a positive number, 'R' and 'RMB', in any letter case; for any other
\* value it raises ValueError and returns nothing.
C21_ParseButton ==
    parseCall.called
    => IF DocumentedButton(parseCall.value) # "none"
       THEN parseCall.out = [raised |-> "none", value |-> DocumentedButton(parseCall.value)]
       ELSE parseCall.out.raised = "ValueError"

\* C22: a __next__ that finds _events empty and the keyboard changed does
\* not raise, whichever codes changed; and the tuple it yields together
\* with those it leaves in _events are exactly one (key, down) tuple for
\* each code whose bit differs between the snapshots, down being the new
\* state of the code.
C22_EventsYield ==
    [][(evs.events = <<>> /\ evs' # evs /\ kbd # evs.before
        /\ (evs'.item # <<>> \/ evs'.raised # "none"))
       => LET changed == (kbd \ evs.before) \cup (evs.before \ kbd)
              tuples == {evs'.item} \cup {evs'.events[i] : i \in 1 .. Len(evs'.events)}
          IN /\ evs'.raised = "none"
             /\ Len(evs'.events) + 1 = Cardinality(changed)
             /\ \A vk \in changed : KEYS(vk) # <<>> /\ <<KEYS(vk)[1], vk \in kbd>> \in tuples]_vars

\* C23: a loop step on a key record whose group-0 keysym is Shift_L,
\* Shift_R or Shift_Lock leaves shift_held equal to the record's down flag
\* and caps_held as it was; and a press of a shiftable key delivered while
\* Caps Lock is on and Shift is not held carries the group-1 keysym.
C23_ShiftTracking ==
    [][IsLoopStep
       => LET r == buf'.rec
              k0 == KeycodeToKeysym(r.detail, 0)
          IN /\ (IsKeyRec(r) /\ k0 \in shift_keys)
                => /\ shift_held' = (r.type = KeyPress)
                   /\ caps_held' = caps_held
             /\ (/\ r.type = KeyPress /\ k0 \in shiftable
                 /\ caps_held /\ ~shift_held /\ calls' # <<>>)
                => calls'[1].ev.key = KeycodeToKeysym(r.detail, 1)]_vars

\* C24: the group-1 keysym is used for key presses only: a key release
\* that is delivered carries the group-0 keysym of its keycode, also for a
\* shiftable key while Shift is held or Caps Lock is on.
C24_ReleaseGroup0 ==
    [][(IsLoopStep /\ buf'.rec.type = KeyRelease /\ calls' # <<>>)
       => calls'[1].ev.key = KeycodeToKeysym(buf'.rec.detail, 0)]_vars

\* C25: the KeyEvent a loop step delivers carries the modifier state as it
\* is after the record: shift TRUE for a Shift press, shift FALSE for a
\* Shift release, caps the toggled value for a Caps Lock press, and for
\* every other combination the shift and caps of before the record; down
\* is TRUE for a press and FALSE for a release, and up is the negation of
\* down.
C25_ModifierSnapshot ==
    [][(IsLoopStep /\ calls' # <<>> /\ calls'[1].kind = "key")
       => LET r == calls'[1].rec
              e == calls'[1].ev
              k0 == KeycodeToKeysym(r.detail, 0)
              isShift == k0 \in shift_keys
          IN /\ e.shift = shift_held' /\ e.caps = caps_held'
             /\ (isShift /\ r.type = KeyPress) => e.shift
             /\ (isShift /\ r.type = KeyRelease) => ~e.shift
             /\ IsCapsPress(r) => e.caps = ~caps_held
             /\ ~isShift => e.shift = shift_held
             /\ ~IsCapsPress(r) => e.caps = caps_held
             /\ e.down = (r.type = KeyPress)
             /\ e.up = ~e.down]_vars

\* C25 witness: a second Caps Lock press, with Shift held, was delivered
\* with caps FALSE and shift TRUE.
C25_Witness ==
    /\ Invoked /\ LastCall.kind = "key" /\ IsCapsPress(LastCall.rec)
    /\ seen.capsPresses = 2
    /\ LastCall.ev.down /\ ~LastCall.ev.caps /\ LastCall.ev.shift /\ ~caps_held

\* C26: a loop step on a record whose type is none of KeyPress, KeyRelease,
\* ButtonPress, ButtonRelease and MotionNotify makes no invocation and
\* leaves shift_held, caps_held and mouse_pos as they were; and the loop
\* goes on to the next record whenever data is left in the buffer.
C26_OtherSkipped ==
    [][(IsLoopStep /\ ~IsKeyRec(buf'.rec) /\ ~IsMouseRec(buf'.rec))
       => /\ calls' = <<>>
          /\ shift_held' = shift_held /\ caps_held' = caps_held
          /\ mouse_pos' = mouse_pos
          /\ pc' \in {"loop", "enabled"}]_vars

\* C26 witness: with both callbacks registered the first record of a
\* buffer was of another type, nothing was invoked, and the loop is at the
\* next record.
C26_Witness ==
    /\ key_cb # None /\ mouse_cb # None
    /\ pc = "loop" /\ buf.n = 1 /\ buf.rec \in OtherRecords
    /\ calls = <<>> /\ ~buf.invoked

\* C27: the pointer position is changed by loop steps on motion records
\* only: a button record's event carries the position as it was and leaves
\* it, a key record leaves it; shift_held and caps_held are changed by loop
\* steps on Shift and Caps Lock key records only: other keys, button
\* records and motion records leave them.
C27_OwnedState ==
    [][LET r == buf'.rec
           k0 == KeycodeToKeysym(r.detail, 0)
       IN /\ mouse_pos' # mouse_pos => (IsLoopStep /\ r.type = MotionNotify)
          /\ (IsLoopStep /\ IsButtonRec(r) /\ calls' # <<>>)
             => calls'[1].ev.pos = mouse_pos
          /\ (shift_held' # shift_held \/ caps_held' # caps_held)
             => /\ IsLoopStep /\ IsKeyRec(r)
                /\ k0 \in shift_keys \cup {XK_Caps_Lock}
          /\ shift_held' # shift_held => k0 \in shift_keys
          /\ caps_held' # caps_held => k0 = XK_Caps_Lock]_vars

\* C27 witness: a button press was delivered after Shift went down and the
\* pointer moved: it carries the position of the motion, and the position
\* and the modifier state are as they were.
C27_Witness ==
    /\ Invoked /\ LastCall.kind = "mouse" /\ LastCall.rec.type = ButtonPress
    /\ buf.lastMotion = Some(<<10, 20>>)
    /\ LastCall.ev.pos = <<10, 20>> /\ mouse_pos = <<10, 20>>
    /\ shift_held /\ ~caps_held

\* C28: every request that creates, enables, disables or frees a context
\* is written to the connection record_dpy; none is written to local_dpy,
\* which serves the keysym lookups only.
C28_ConnectionRoles ==
    lastReq.op \in {"create", "enable", "disable", "free"}
    => lastReq.conn = "record_dpy"

\* The number of the flags left, middle and right an event has set.
ButtonFlags(e) ==
    (IF e.left THEN 1 ELSE 0) + (IF e.middle THEN 1 ELSE 0) + (IF e.right THEN 1 ELSE 0)

\* C29: a mouse event delivered for a button record has down TRUE for a
\* press and FALSE for a release, up the negation of down, and move FALSE;
\* one delivered for a motion record has down None, move TRUE, code 0 and
\* none of left, middle, right set; and every mouse event, delivered or
\* built from any code from 0 to 15, has at most one of left, middle and
\* right set and none of them when wheel is not 0.
C29_MouseEventShape ==
    /\ (Invoked /\ LastCall.kind = "mouse")
       => LET r == LastCall.rec
              e == LastCall.ev
          IN /\ IsButtonRec(r)
                => /\ e.down = Some(r.type = ButtonPress)
                   /\ e.up = (r.type # ButtonPress)
                   /\ e.move = FALSE
             /\ r.type = MotionNotify
                => /\ e.down = NoneVal /\ e.move = TRUE /\ e.other = 0
                   /\ ButtonFlags(e) = 0
             /\ ButtonFlags(e) <= 1
             /\ e.wheel # 0 => ButtonFlags(e) = 0
    /\ \A code \in 0 .. 15 : \A down \in {Some(TRUE), Some(FALSE), NoneVal} :
          LET e == MouseEvent(code, down, mouse_pos, down = NoneVal)
          IN /\ ButtonFlags(e) <= 1
             /\ e.wheel # 0 => ButtonFlags(e) = 0
             /\ down # NoneVal => e.up = ~down[1]

\* C29 witness: a motion record was delivered after a button record of the
\* same buffer: down is None and move is set.
C29_Witness ==
    /\ Invoked /\ LastCall.kind = "mouse" /\ LastCall.rec.type = MotionNotify
    /\ buf.n = 2 /\ buf.onlyMouse /\ key_cb = None
    /\ LastCall.ev.down = NoneVal /\ LastCall.ev.move /\ LastCall.ev.up

\* C30: a read of name or ord of a KeyEvent does not raise; name is a name
\* Xlib.XK has for the keysym, or the keysym in brackets when it has none;
\* ord is an integer from 0 to 255: the keysym itself when it has a name and
\* is below 256, and 0 otherwise, also for a keysym with no name.
C30_NameAndOrd ==
    keyProp.called
    => LET key == keyProp.ev.key
           named == \E i \in 1 .. Len(XK) : XK[i][2] = key
       IN /\ keyProp.raised = "none"
          /\ keyProp.prop = "name"
             => IF named THEN \E i \in 1 .. Len(XK) : XK[i] = <<keyProp.value, key>>
                ELSE keyProp.value = "[" \o ToString(key) \o "]"
          /\ keyProp.prop = "ord"
             => /\ keyProp.value \in 0 .. 255
                /\ keyProp.value = IF named /\ key < 256 THEN key ELSE 0

\* C30 witness: ord was read of an event of Shift_L, a keysym with a name
\* and a value of 256 or more, and gave 0.
C30_Witness ==
    /\ keyProp.called /\ keyProp.prop = "ord" /\ keyProp.ev.key = XK_Shift_L
    /\ keyProp.value = 0 /\ keyProp.printed = <<XK_Shift_L, XK_Shift_L>>

\* The key-down inputs of a sequence of inputs, and the codes of inputs.
Downs(inputs) == SelectSeq(inputs, LAMBDA i : i.down)
VksOf(inputs) == [i \in 1 .. Len(inputs) |-> inputs[i].vk]

\* The keys left down, innermost last, when inputs are read from position
\* i on with the keys of stack down: a key-down is pushed, a key-up must be
\* of the key pushed last.  <<"bad">> when a key-up is of any other key.
RECURSIVE Nesting(_, _, _)
Nesting(inputs, i, stack) ==
    IF i > Len(inputs) THEN stack
    ELSE IF inputs[i].down THEN Nesting(inputs, i + 1, Append(stack, inputs[i].vk))
    ELSE IF stack # <<>> /\ stack[Len(stack)] = inputs[i].vk
    THEN Nesting(inputs, i + 1, SubSeq(stack, 1, Len(stack) - 1))
    ELSE <<"bad">>

\* The codes of the keys of all the combinations of keys, in order.
RECURSIVE AllVks(_, _)
AllVks(keys, i) ==
    IF i > Len(keys) THEN <<>>
    ELSE LET parts == Split(keys[i])
         IN [j \in 1 .. Len(parts) |-> KeyToVk(parts[j]).vk] \o AllVks(keys, i + 1)

\* The number of keys of the combinations before position i.
RECURSIVE KeysBefore(_, _)
KeysBefore(keys, i) ==
    IF i <= 1 THEN 0 ELSE KeysBefore(keys, i - 1) + Len(Split(keys[i - 1]))

\* C31: the inputs press hands to SendInput on Windows are balanced and
\* properly nested: every key-up is of the key pressed last and still
\* down, and no key is left down; the key-down inputs are, in order, the
\* keys of the first combination, then those of the second, and so on; and
\* the inputs of one combination end before those of the next begin, its n
\* key-down inputs followed by its n key-up inputs.
C31_PressNested ==
    (pressCall.called /\ pressCall.raised = "none")
    => LET keys == pressCall.keys
       IN /\ Nesting(sent, 1, <<>>) = <<>>
          /\ VksOf(Downs(sent)) = AllVks(keys, 1)
          /\ Len(sent) = 2 * Len(AllVks(keys, 1))
          /\ \A i \in 1 .. Len(keys) :
                LET n == Len(Split(keys[i]))
                    from == 2 * KeysBefore(keys, i)
                IN /\ \A j \in 1 .. n : sent[from + j].down
                   /\ \A j \in 1 .. n : ~sent[from + n + j].down
                   /\ Nesting(SubSeq(sent, from + 1, from + 2 * n), 1, <<>>) = <<>>

\* C31 witness: press('ctrl+a+d', 'a+d') sent the three keys down, up in
\* reverse, and then the two keys of the second combination.
C31_Witness ==
    /\ pressCall.called /\ pressCall.raised = "none"
    /\ pressCall.keys = << <<"c", "t", "r", "l", "+", "a", "+", "d">>, <<"a", "+", "d">> >>
    /\ VksOf(sent) = <<17, 65, 68, 68, 65, 17, 65, 68, 68, 65>>
    /\ \A i \in 1 .. 10 : sent[i].down = (i \in {1, 2, 3, 7, 8})

\* C32: while the block of `with hold(*keys)` is open, one key-down input
\* for each of the keys, in order, was sent before anything the body sent;
\* once the block is left, by the end of the body or by an exception raised
\* in it, one key-up input for each of the same keys was sent after
\* everything the body sent; and the block is left in no other way.
C32_HoldReleases ==
    LET vks == [i \in 1 .. Len(holdSt.keys) |-> KeyToVk(holdSt.keys[i]).vk]
    IN /\ holdSt.pc \in {"body", "left"}
          => /\ VksOf(holdSt.downs) = vks
             /\ \A i \in 1 .. Len(holdSt.downs) : holdSt.downs[i].down
             /\ SubSeq(sent, 1, Len(vks)) = holdSt.downs
       /\ holdSt.pc = "body" => sent = holdSt.downs \o holdSt.body
       /\ holdSt.pc = "left"
          => /\ sent = holdSt.downs \o holdSt.body \o holdSt.ups
             /\ VksOf(holdSt.ups) = vks
             /\ \A i \in 1 .. Len(holdSt.ups) : ~holdSt.ups[i].down
       /\ holdSt.pc = "out" => sent = <<>>

\* C32 witness: `with hold('a', ' ')` was left by an exception after the
\* body pressed ctrl+d, and both keys went up.
C32_Witness ==
    /\ holdSt.pc = "left" /\ holdSt.bodyExc
    /\ holdSt.keys = << <<"a">>, <<" ">> >>
    /\ VksOf(sent) = <<65, 32, 17, 68, 68, 17, 65, 32>>
    /\ ~sent[7].down /\ ~sent[8].down

\* The keycodes of the keys that are down after the first n records of a
\* stream that began with no key down.
RECURSIVE KeysDown(_, _)
KeysDown(recs, n) ==
    IF n = 0 THEN {}
    ELSE LET before == KeysDown(recs, n - 1)
         IN IF recs[n].type = KeyPress THEN before \cup {recs[n].detail}
            ELSE IF recs[n].type = KeyRelease THEN before \ {recs[n].detail}
            ELSE before

\* A stream a keyboard can produce: a key goes down only when it is up and
\* up only when it is down.
Physical(recs) ==
    \A n \in 1 .. Len(recs) :
        /\ recs[n].type = KeyPress => recs[n].detail \notin KeysDown(recs, n - 1)
        /\ recs[n].type = KeyRelease => recs[n].detail \in KeysDown(recs, n - 1)

\* The keycodes of the Shift keys.
ShiftKeycodes == {k \in Keycodes : KeycodeToKeysym(k, 0) \in shift_keys}

\* C33: after key records that were all processed with a keyboard callback
\* registered, shift_held is TRUE exactly when one of the Shift keys is
\* down; so with Shift_L and Shift_R down the release of one of them
\* leaves shift_held TRUE.
C33_ShiftHeldIffDown ==
    (~hist.missed /\ Physical(hist.decoded))
    => (shift_held <=> KeysDown(hist.decoded, Len(hist.decoded)) \cap ShiftKeycodes # {})

====
